---- MODULE Spec2Model ----
(***************************************************************************)
(* CareLens-360: the per-patient scan pipeline (src/src/app.py), the       *)
(* extraction client (src/src/gemini_client.py) and the record store       *)
(* adapter (src/src/firestore_client.py).                                  *)
(*                                                                         *)
(* Text is modelled as a sequence of lexemes.  The three-backtick fence,   *)
(* the tag word json and every other word are single lexemes; the JSON     *)
(* punctuation and the double quote are one lexeme each.  A Python value   *)
(* held in a record field is written as its canonical JSON lexeme          *)
(* sequence (a Python str with content c is <<Q>> \o c \o <<Q>>), so that  *)
(* all field values are sequences of strings.                              *)
(***************************************************************************)
EXTENDS Integers, Sequences, FiniteSets, TLC

\* ------------------------------------------------------------------------
\* Lexemes
\* ------------------------------------------------------------------------
\* the three-backtick fence marker
FENCE == "<fence>"
TAG == "json"
WS == " "
Q == "\""
LBRACE == "{"
RBRACE == "}"
LBRACK == "["
RBRACK == "]"
COMMA == ","
COLON == ":"
DIGIT == "1"

\* ------------------------------------------------------------------------
\* Python str primitives used by the extraction client
\* ------------------------------------------------------------------------

\* text[i:j] with 0-based Python indices; a negative j counts from the end.
PySlice(text, i, j) ==
    LET n == Len(text)
        jj == IF j < 0 THEN (IF n + j < 0 THEN 0 ELSE n + j)
              ELSE (IF j > n THEN n ELSE j)
        ii == IF i > n THEN n ELSE i
    IN  IF ii >= jj THEN <<>> ELSE SubSeq(text, ii + 1, jj)

\* pat occurs in text at 0-based index i
MatchAt(text, pat, i) ==
    /\ i >= 0
    /\ i + Len(pat) <= Len(text)
    /\ \A k \in 1..Len(pat) : text[i + k] = pat[k]

\* text.find(pat, start): lowest 0-based index >= start, or -1
PyFind(text, pat, start) ==
    LET hits == { i \in start..(Len(text) - Len(pat)) : MatchAt(text, pat, i) }
    IN  IF hits = {} THEN -1
        ELSE CHOOSE i \in hits : \A h \in hits : i <= h

\* pat in text
PyContains(text, pat) == PyFind(text, pat, 0) # -1

\* text.strip()
PyStrip(text) ==
    LET nonws == { i \in 1..Len(text) : text[i] # WS }
    IN  IF nonws = {} THEN <<>>
        ELSE LET lo == CHOOSE i \in nonws : \A h \in nonws : i <= h
                 hi == CHOOSE i \in nonws : \A h \in nonws : i >= h
             IN  SubSeq(text, lo, hi)

\* A Python str with content c, as a field value
PyStr(c) == <<Q>> \o c \o <<Q>>

EmptyStr == <<Q, Q>>
EmptyDict == <<LBRACE, RBRACE>>
EmptyList == <<LBRACK, RBRACK>>

\* ------------------------------------------------------------------------
\* json.loads, on lexeme sequences.  Positions are 1-based; a parse
\* operator returns the position after the value it read, or 0 when the
\* text is not JSON at that position.
\* ------------------------------------------------------------------------
Min(S) == CHOOSE x \in S : \A y \in S : x <= y

SkipWs(t, i) == Min({ j \in i..(Len(t) + 1) : j = Len(t) + 1 \/ t[j] # WS })

RECURSIVE ParseValue(_, _)
RECURSIVE ParseElements(_, _)
RECURSIVE ParseMembers(_, _)

\* a string literal runs to the next quote; a number is a run of digits
ParseValue(t, i) ==
    IF i > Len(t) THEN 0
    ELSE IF t[i] = Q THEN
        LET closes == { j \in (i + 1)..Len(t) : t[j] = Q }
        IN  IF closes = {} THEN 0 ELSE Min(closes) + 1
    ELSE IF t[i] = DIGIT THEN
        Min({ j \in (i + 1)..(Len(t) + 1) : j = Len(t) + 1 \/ t[j] # DIGIT })
    ELSE IF t[i] = LBRACK THEN
        LET j == SkipWs(t, i + 1)
        IN  IF j <= Len(t) /\ t[j] = RBRACK THEN j + 1 ELSE ParseElements(t, j)
    ELSE IF t[i] = LBRACE THEN
        LET j == SkipWs(t, i + 1)
        IN  IF j <= Len(t) /\ t[j] = RBRACE THEN j + 1 ELSE ParseMembers(t, j)
    ELSE 0

\* value (, value)* ]
ParseElements(t, i) ==
    LET e == ParseValue(t, i)
        j == SkipWs(t, e)
    IN  IF e = 0 \/ j > Len(t) THEN 0
        ELSE IF t[j] = COMMA THEN ParseElements(t, SkipWs(t, j + 1))
        ELSE IF t[j] = RBRACK THEN j + 1
        ELSE 0

\* string : value (, string : value)* }
ParseMembers(t, i) ==
    IF i > Len(t) \/ t[i] # Q THEN 0
    ELSE
        LET ke == ParseValue(t, i)
            c  == SkipWs(t, ke)
        IN  IF ke = 0 \/ c > Len(t) \/ t[c] # COLON THEN 0
            ELSE
                LET ve == ParseValue(t, SkipWs(t, c + 1))
                    j  == SkipWs(t, ve)
                IN  IF ve = 0 \/ j > Len(t) THEN 0
                    ELSE IF t[j] = COMMA THEN ParseMembers(t, SkipWs(t, j + 1))
                    ELSE IF t[j] = RBRACE THEN j + 1
                    ELSE 0

\* whitespace between JSON tokens is not part of the parsed value
RECURSIVE NormFrom(_, _, _)
NormFrom(v, i, inStr) ==
    IF i > Len(v) THEN <<>>
    ELSE IF v[i] = Q THEN <<Q>> \o NormFrom(v, i + 1, ~inStr)
    ELSE IF v[i] = WS /\ ~inStr THEN NormFrom(v, i + 1, inStr)
    ELSE <<v[i]>> \o NormFrom(v, i + 1, inStr)

Norm(v) == NormFrom(v, 1, FALSE)

\* the members of the object whose first key starts at i, in text order
RECURSIVE CollectMembers(_, _)
CollectMembers(t, i) ==
    IF i > Len(t) \/ t[i] # Q THEN <<>>
    ELSE
        LET ke == ParseValue(t, i)
            vs == SkipWs(t, SkipWs(t, ke) + 1)
            ve == ParseValue(t, vs)
            j  == SkipWs(t, ve)
            m  == [k |-> SubSeq(t, i + 1, ke - 2), v |-> Norm(SubSeq(t, vs, ve - 1))]
        IN  IF t[j] = COMMA THEN <<m>> \o CollectMembers(t, SkipWs(t, j + 1))
            ELSE <<m>>

\* json.loads(text): ok = FALSE is JSONDecodeError; pytype is the Python
\* type of the value; mem are the key/value pairs of a dict
JsonLoads(text) ==
    LET i == SkipWs(text, 1)
        e == ParseValue(text, i)
    IN  IF e = 0 \/ SkipWs(text, e) # Len(text) + 1
        THEN [ok |-> FALSE, pytype |-> "none", mem |-> <<>>]
        ELSE IF text[i] = LBRACE
        THEN [ok |-> TRUE, pytype |-> "dict",
              mem |-> CollectMembers(text, SkipWs(text, i + 1))]
        ELSE [ok |-> TRUE,
              pytype |-> IF text[i] = LBRACK THEN "list"
                         ELSE IF text[i] = Q THEN "str" ELSE "int",
              mem |-> <<>>]

\* d.get(key, default) on a dict given as its key/value pairs; a repeated
\* key keeps its last value
DictGet(mem, key, default) ==
    LET hits == { n \in 1..Len(mem) : mem[n].k = <<key>> }
    IN  IF hits = {} THEN default
        ELSE mem[CHOOSE n \in hits : \A h \in hits : n >= h].v

\* ------------------------------------------------------------------------
\* GeminiClient.generate_clinical_summary
\*
\* A model call is [raises, msg, text, candidates, finish_reason]: raises
\* says that generate_content (or reading response.text) raised with
\* str(e) = msg; otherwise text is response.text, candidates says whether
\* response.candidates is non-empty and finish_reason is
\* candidates[0].finish_reason (0 is the unset value, which is falsy).
\*
\* A returned dict is a record; has_error says whether the key "error" is
\* present, and a field of an absent key holds <<>>.  The timestamp field
\* is left out.
\* ------------------------------------------------------------------------
SAFETY == 2
RECITATION == 3

ListFields == {"abnormalities", "prescriptions", "exercises", "dietary",
               "recommendations"}

\* BlockedMessage that gives a recitation block the message of a safety block
BlockedMessageMerged(call) ==
    IF call.candidates /\ call.finish_reason # 0
    THEN IF call.finish_reason = SAFETY \/ call.finish_reason = RECITATION
         THEN <<"Content was blocked by safety filters">>
         ELSE <<"Response blocked with reason: ", ToString(call.finish_reason)>>
    ELSE <<"Empty response from Gemini API">>

\* the exception message chosen for an empty reply
BlockedMessage(call) ==
    IF call.candidates /\ call.finish_reason # 0
    THEN IF call.finish_reason = SAFETY
         THEN <<"Content was blocked by safety filters">>
         ELSE IF call.finish_reason = RECITATION
         THEN <<"Content was blocked due to recitation">>
         ELSE <<"Response blocked with reason: ", ToString(call.finish_reason)>>
    ELSE <<"Empty response from Gemini API">>

\* the inner try: the call, the empty-reply check and the strip
ApiCall(call) ==
    IF call.raises
    THEN [raised |-> TRUE, exc |-> call.msg, text |-> <<>>]
    ELSE IF call.text = <<>>
    THEN [raised |-> TRUE, exc |-> BlockedMessage(call), text |-> <<>>]
    ELSE [raised |-> FALSE, exc |-> <<>>, text |-> PyStrip(call.text)]

\* unwrapping of a fenced block
ExtractJson(response_text) ==
    IF PyContains(response_text, <<FENCE, TAG>>)
    THEN LET json_start == PyFind(response_text, <<FENCE, TAG>>, 0) + Len(<<FENCE, TAG>>)
             json_end == PyFind(response_text, <<FENCE>>, json_start)
         IN  PyStrip(PySlice(response_text, json_start, json_end))
    ELSE IF PyContains(response_text, <<FENCE>>)
    THEN LET json_start == PyFind(response_text, <<FENCE>>, 0) + Len(<<FENCE>>)
             json_end == PyFind(response_text, <<FENCE>>, json_start)
         IN  PyStrip(PySlice(response_text, json_start, json_end))
    ELSE response_text

\* the dict built when json.loads raises JSONDecodeError
FallbackData(response_text) ==
    [ok |-> TRUE, pytype |-> "dict",
     mem |-> << [k |-> <<"summary">>, v |-> PyStr(response_text)],
                [k |-> <<"measurements">>, v |-> EmptyDict],
                [k |-> <<"abnormalities">>, v |-> EmptyList],
                [k |-> <<"recommendations">>, v |-> EmptyList] >>]

\* clinical_data
ParseReply(response_text) ==
    LET parsed == JsonLoads(response_text)
    IN  IF parsed.ok THEN parsed ELSE FallbackData(response_text)

\* BuildResult that reads dietary under a misspelt key
BuildResultMisreadKey(clinical_data, response_text, model_name) ==
    [summary         |-> DictGet(clinical_data.mem, "summary", PyStr(response_text)),
     measurements    |-> DictGet(clinical_data.mem, "measurements", EmptyDict),
     abnormalities   |-> DictGet(clinical_data.mem, "abnormalities", EmptyList),
     prescriptions   |-> DictGet(clinical_data.mem, "prescriptions", EmptyList),
     exercises       |-> DictGet(clinical_data.mem, "exercises", EmptyList),
     dietary         |-> DictGet(clinical_data.mem, "diet", EmptyList),
     recommendations |-> DictGet(clinical_data.mem, "recommendations", EmptyList),
     raw_response    |-> PyStr(response_text),
     model_used      |-> model_name,
     has_error       |-> FALSE,
     error           |-> <<>>]

\* the result dict read out of clinical_data
BuildResult(clinical_data, response_text, model_name) ==
    [summary         |-> DictGet(clinical_data.mem, "summary", PyStr(response_text)),
     measurements    |-> DictGet(clinical_data.mem, "measurements", EmptyDict),
     abnormalities   |-> DictGet(clinical_data.mem, "abnormalities", EmptyList),
     prescriptions   |-> DictGet(clinical_data.mem, "prescriptions", EmptyList),
     exercises       |-> DictGet(clinical_data.mem, "exercises", EmptyList),
     dietary         |-> DictGet(clinical_data.mem, "dietary", EmptyList),
     recommendations |-> DictGet(clinical_data.mem, "recommendations", EmptyList),
     raw_response    |-> PyStr(response_text),
     model_used      |-> model_name,
     has_error       |-> FALSE,
     error           |-> <<>>]

\* the dict returned by the outer except
ErrorRecord(exc, model_name) ==
    [summary         |-> PyStr(<<"Error analyzing image: ">> \o exc),
     measurements    |-> EmptyDict,
     abnormalities   |-> EmptyList,
     prescriptions   |-> EmptyList,
     exercises       |-> EmptyList,
     dietary         |-> EmptyList,
     recommendations |-> EmptyList,
     raw_response    |-> <<>>,
     model_used      |-> model_name,
     has_error       |-> TRUE,
     error           |-> PyStr(exc)]

\* the body of the outer try: either an exception or the result dict.
\* Calling .get on a value that is not a dict raises AttributeError.
SummaryBody(call, model_name) ==
    LET api == ApiCall(call)
        response_text == ExtractJson(api.text)
        clinical_data == ParseReply(response_text)
    IN  IF api.raised
        THEN [raised |-> TRUE, exc |-> api.exc, result |-> ErrorRecord(<<>>, model_name)]
        ELSE IF clinical_data.pytype # "dict"
        THEN [raised |-> TRUE,
              exc |-> <<"'", clinical_data.pytype, "' object has no attribute 'get'">>,
              result |-> ErrorRecord(<<>>, model_name)]
        ELSE [raised |-> FALSE, exc |-> <<>>,
              result |-> BuildResult(clinical_data, response_text, model_name)]

\* GenerateClinicalSummary without the outer except
GenerateClinicalSummaryUncaught(call, model_name) ==
    LET body == SummaryBody(call, model_name)
    IN  IF body.raised
        THEN [propagated |-> TRUE, exc |-> body.exc, rec |-> ErrorRecord(body.exc, model_name)]
        ELSE [propagated |-> FALSE, exc |-> <<>>, rec |-> body.result]

\* an exception that leaves generate_clinical_summary is [propagated |-> TRUE]
GenerateClinicalSummary(call, model_name) ==
    LET body == SummaryBody(call, model_name)
    IN  IF body.raised
        THEN [propagated |-> FALSE, exc |-> <<>>, rec |-> ErrorRecord(body.exc, model_name)]
        ELSE [propagated |-> FALSE, exc |-> <<>>, rec |-> body.result]

\* ------------------------------------------------------------------------
\* Names, object keys and GCSClient.list_patient_images
\*
\* A patient name, a file name and an object key are lexeme sequences; the
\* separator "/" and a file extension are one lexeme each.
\* ------------------------------------------------------------------------
SEP == "/"
UNDERSCORE == "_"

SUPPORTED_IMAGE_FORMATS == {".png", ".jpg", ".jpeg", ".gif", ".bmp", ".tiff", ".webp"}

\* str.lower() of one lexeme
LowerLexeme(c) ==
    CASE c = ".PNG" -> ".png"
      [] c = "BP" -> "bp"
      [] c = "Heart" -> "heart"
      [] c = "Rate" -> "rate"
      [] c = "Respiratory" -> "respiratory"
      [] c = "Fracture" -> "fracture"
      [] c = "P" -> "p"
      [] OTHER -> c

\* the order of lexemes under Python's string comparison
LexemeOrder == <<WS, ".PNG", ".jpg", ".png", ".txt", SEP, UNDERSCORE, "a", "b", "p", "q",
                 "x", "y">>

Rank(c) == CHOOSE n \in 1..Len(LexemeOrder) : LexemeOrder[n] = c

\* a < b for two keys
KeyLess(a, b) ==
    \E n \in 1..(Len(a) + 1) :
        /\ n <= Len(b)
        /\ \A k \in 1..(n - 1) : a[k] = b[k]
        /\ (n = Len(a) + 1 \/ Rank(a[n]) < Rank(b[n]))

\* sorted(S) for a set of keys
RECURSIVE SortedKeys(_)
SortedKeys(S) ==
    IF S = {} THEN <<>>
    ELSE LET m == CHOOSE a \in S : \A b \in S \ {a} : KeyLess(a, b)
         IN  <<m>> \o SortedKeys(S \ {m})

\* key.startswith(prefix)
StartsWith(key, prefix) ==
    /\ Len(prefix) <= Len(key)
    /\ SubSeq(key, 1, Len(prefix)) = prefix

\* any(blob.name.lower().endswith(ext) for ext in SUPPORTED_IMAGE_FORMATS)
IsImage(key) ==
    /\ key # <<>>
    /\ LowerLexeme(key[Len(key)]) \in SUPPORTED_IMAGE_FORMATS

\* ListPatientImages whose prefix is the patient name without the separator
ListPatientImagesNamePrefix(objects, patient_name, ok) ==
    IF ok
    THEN SortedKeys({ key \in objects : StartsWith(key, patient_name) /\ IsImage(key) })
    ELSE <<>>

\* list_patient_images; ok = FALSE is the listing raising, which is caught
ListPatientImages(objects, patient_name, ok) ==
    IF ok
    THEN SortedKeys({ key \in objects :
                        StartsWith(key, patient_name \o <<SEP>>) /\ IsImage(key) })
    ELSE <<>>

\* image_name.split("/")[-1]
LastSegment(key) ==
    LET seps == { i \in 1..Len(key) : key[i] = SEP }
    IN  IF seps = {} THEN key
        ELSE SubSeq(key, (CHOOSE i \in seps : \A j \in seps : i >= j) + 1, Len(key))

\* len(blob.name.split("/")) > 1
HasFolder(key) == \E i \in 1..Len(key) : key[i] = SEP

\* blob.name.split("/")[0]
FirstSegment(key) ==
    LET seps == { i \in 1..Len(key) : key[i] = SEP }
    IN  IF seps = {} THEN key ELSE SubSeq(key, 1, Min(seps) - 1)

\* prefix.rstrip("/")
RStripSep(prefix) ==
    LET keep == { i \in 1..Len(prefix) : prefix[i] # SEP }
    IN  IF keep = {} THEN <<>>
        ELSE SubSeq(prefix, 1, CHOOSE i \in keep : \A j \in keep : i >= j)

\* list_patients; prefixes is blobs.prefixes of the delimiter listing, and
\* ok = FALSE is a listing raising, which is caught
ListPatients(objects, prefixes, ok) ==
    IF ok
    THEN SortedKeys(({ RStripSep(prefix) : prefix \in prefixes } \ {<<>>})
                    \cup { FirstSegment(key) :
                             key \in { o \in objects :
                                         HasFolder(o) /\ FirstSegment(o) # <<>> } })
    ELSE <<>>

\* f"{patient_name}/{file_name}"
BlobPath(patient_name, file_name) == patient_name \o <<SEP>> \o file_name

\* UploadPatientImage that uses the patient name as it was given
UploadPatientImageUntrimmed(objects, patient_name, file_name, ok) ==
    IF patient_name = <<>> \/ ~ok
    THEN [raised |-> TRUE, result |-> <<>>, objects |-> objects]
    ELSE [raised |-> FALSE, result |-> BlobPath(patient_name, file_name),
          objects |-> objects \cup {BlobPath(patient_name, file_name)}]

\* upload_patient_image: what it returns or that it raised, and the bucket
\* after it; ok = FALSE is upload_from_string raising, which is re-raised
UploadPatientImage(objects, patient_name, file_name, ok) ==
    LET name == PyStrip(patient_name)
    IN  IF name = <<>> \/ ~ok
        THEN [raised |-> TRUE, result |-> <<>>, objects |-> objects]
        ELSE [raised |-> FALSE, result |-> BlobPath(name, file_name),
              objects |-> objects \cup {BlobPath(name, file_name)}]

\* ------------------------------------------------------------------------
\* FirestoreClient.save_summary
\* ------------------------------------------------------------------------

\* f"{patient_name}_{image_filename}"
DocId(patient_name, image_filename) ==
    patient_name \o <<UNDERSCORE>> \o image_filename

\* doc_data; has_metadata says whether the key image_metadata is present
DocData(patient_name, image_name, summary_data, has_metadata, now) ==
    [patient_name    |-> patient_name,
     image_name      |-> LastSegment(image_name),
     image_path      |-> image_name,
     summary         |-> summary_data.summary,
     measurements    |-> summary_data.measurements,
     abnormalities   |-> summary_data.abnormalities,
     prescriptions   |-> summary_data.prescriptions,
     exercises       |-> summary_data.exercises,
     dietary         |-> summary_data.dietary,
     recommendations |-> summary_data.recommendations,
     created_at      |-> now,
     updated_at      |-> now,
     model_used      |-> summary_data.model_used,
     has_metadata    |-> has_metadata,
     has_error       |-> summary_data.has_error,
     error           |-> summary_data.error]

\* SetDocument that adds a document under a fresh id on every call
AddDocument(docs, doc_id, doc_data) ==
    LET fresh == doc_id \o <<ToString(doc_data.created_at)>>
    IN  [d \in DOMAIN docs \cup {fresh} |-> IF d = fresh THEN doc_data ELSE docs[d]]

\* doc_ref.set(doc_data): create or overwrite the document doc_id
SetDocument(docs, doc_id, doc_data) ==
    [d \in DOMAIN docs \cup {doc_id} |-> IF d = doc_id THEN doc_data ELSE docs[d]]

\* ------------------------------------------------------------------------
\* Bounds and inputs
\* ------------------------------------------------------------------------
MaxScans == 2
MaxFinishReason == 5
MaxPartial == 1

GEMINI_MODEL == "gemini-2.5-flash"

FieldNames == {"summary", "measurements"} \cup ListFields

JStr(c) == <<Q>> \o c \o <<Q>>

\* the text of the value a reply gives to a field
FieldText(f) ==
    IF f = "summary" THEN JStr(<<"s">>)
    ELSE IF f = "measurements"
    THEN <<LBRACE>> \o JStr(<<"bp">>) \o <<COLON>> \o JStr(<<DIGIT>>) \o <<RBRACE>>
    ELSE <<LBRACK>> \o JStr(<<f>>) \o <<RBRACK>>

FieldOrder == <<"summary", "measurements", "abnormalities", "prescriptions",
                "exercises", "dietary", "recommendations">>

\* the members "f": value of the fields of S from position n on, in FieldOrder
RECURSIVE MembersText(_, _, _)
MembersText(S, n, first) ==
    IF n > Len(FieldOrder) THEN <<>>
    ELSE IF FieldOrder[n] \in S
    THEN (IF first THEN <<>> ELSE <<COMMA, WS>>)
         \o JStr(<<FieldOrder[n]>>) \o <<COLON, WS>> \o FieldText(FieldOrder[n])
         \o MembersText(S, n + 1, FALSE)
    ELSE MembersText(S, n + 1, first)

\* the text of a JSON object that has exactly the fields of S
ObjectText(S) == <<LBRACE>> \o MembersText(S, 1, TRUE) \o <<RBRACE>>

ObjectKeySets ==
    { S \in SUBSET FieldNames :
        \/ Cardinality(S) <= MaxPartial
        \/ Cardinality(S) >= Cardinality(FieldNames) - MaxPartial }

\* objects whose text holds a fence inside a string, an unexpected key, or
\* a key twice
OddObjectTexts ==
    { <<LBRACE>> \o JStr(<<"summary">>) \o <<COLON>> \o JStr(<<"a", FENCE, "b">>) \o <<RBRACE>>,
      <<LBRACE>> \o JStr(<<"summary">>) \o <<COLON>> \o JStr(<<"a", FENCE, TAG>>) \o <<RBRACE>>,
      <<LBRACE>> \o JStr(<<"other">>) \o <<COLON, DIGIT, RBRACE>>,
      <<LBRACE>> \o JStr(<<"summary">>) \o <<COLON>> \o JStr(<<"a">>) \o <<COMMA>>
                 \o JStr(<<"summary">>) \o <<COLON>> \o JStr(<<"b">>) \o <<RBRACE>> }

ObjectTexts == { ObjectText(S) : S \in ObjectKeySets } \cup OddObjectTexts

\* texts that are JSON but not an object
NonObjectTexts == { <<LBRACK, RBRACK>>, JStr(<<"a">>), <<DIGIT>> }

\* texts that are not JSON
NonJsonTexts ==
    { <<"a">>, <<"a", WS, "b">>, <<LBRACE>>, <<Q, "a">>, <<WS>>,
      <<LBRACE>> \o JStr(<<"summary">>) \o <<COLON, RBRACE>>,
      <<LBRACE>> \o JStr(<<"summary">>) \o <<COLON>> \o JStr(<<"a">>) \o <<COMMA, RBRACE>> }

Bodies == ObjectTexts \cup NonObjectTexts \cup NonJsonTexts

\* the ways a reply carries its body
Forms == {"bare", "padded", "tagged", "untagged", "prose_tagged",
          "untagged_first", "tagged_first", "open"}

Wrap(form, body) ==
    CASE form = "bare" -> body
      [] form = "padded" -> <<WS>> \o body \o <<WS>>
      [] form = "tagged" -> <<FENCE, TAG, WS>> \o body \o <<WS, FENCE>>
      [] form = "untagged" -> <<FENCE, WS>> \o body \o <<WS, FENCE>>
      [] form = "prose_tagged" ->
            <<"a", WS, FENCE, TAG, WS>> \o body \o <<WS, FENCE, WS, "b">>
      [] form = "untagged_first" ->
            <<FENCE, WS, "a", WS, FENCE, WS, FENCE, TAG, WS>> \o body \o <<WS, FENCE>>
      [] form = "tagged_first" ->
            <<FENCE, TAG, WS>> \o body \o <<WS, FENCE, WS, FENCE, WS, "a", WS, FENCE>>
      [] form = "open" -> <<"a", FENCE>> \o body

TextCall(text) ==
    [raises |-> FALSE, msg |-> <<>>, text |-> text, candidates |-> TRUE, finish_reason |-> 1]

RaisingCalls ==
    { [raises |-> TRUE, msg |-> m, text |-> <<>>, candidates |-> FALSE, finish_reason |-> 0] :
        m \in { <<"quota exceeded">>, <<>> } }

EmptyCalls ==
    { [raises |-> FALSE, msg |-> <<>>, text |-> <<>>, candidates |-> c, finish_reason |-> r] :
        c \in BOOLEAN, r \in 0..MaxFinishReason }

\* the model calls of the extraction specification; text is the body
ExtractCalls == RaisingCalls \cup EmptyCalls \cup { TextCall(b) : b \in Bodies }

\* the model calls a scan draws from
ScanCalls ==
    { [raises |-> TRUE, msg |-> <<"quota exceeded">>, text |-> <<>>,
       candidates |-> FALSE, finish_reason |-> 0],
      [raises |-> FALSE, msg |-> <<>>, text |-> <<>>,
       candidates |-> TRUE, finish_reason |-> SAFETY],
      TextCall(Wrap("tagged", ObjectText({"summary", "abnormalities"}))),
      TextCall(<<LBRACK, RBRACK>>),
      TextCall(<<"a">>) }

Patients == { <<"p">>, <<"q">>, <<"b">> }

InitialObjects ==
    { <<"p", SEP, "x", ".png">>, <<"p", SEP, "y", ".PNG">>, <<"p", SEP, "x", ".txt">>,
      <<"q", SEP, "x", ".png">>, <<"q", SEP, "a", SEP, "x", ".png">> }

\* ------------------------------------------------------------------------
\* State
\* ------------------------------------------------------------------------
VARIABLES
    bucket,        \* the keys of the objects in the bucket
    store,         \* the collection: document id -> document
    clock,         \* the server time of the record store
    pc,            \* where scan_patient_folder is: idle, scanning, done
    scan_patient,  \* patient_name of the scan
    images,        \* the listing of the scan
    idx,           \* the position of the next image of the listing
    results,       \* the results dict of the scan
    log,           \* per image of this scan, what each stage did
    saves,         \* the save_summary calls that returned, over all scans
    runs,          \* the number of scans that returned
    prev,          \* the scan that returned last
    listed_ok,     \* whether the listing of the scan reached the bucket
    shown,         \* the st.error messages the scan has shown
    ex_call,       \* extraction: the model call, its text being the body
    ex_out,        \* extraction: form of reply -> what
                   \* generate_clinical_summary gave for it
    an_in,         \* analysis: the summaries handed to generate_patient_analysis
    an_out,        \* analysis: [done, analysis], what it returned
    mq_query,      \* measurement rule: the query, by its parts
    mq_meas,       \* measurement rule: the measurements dict
    mq_out,        \* measurement rule: [done, matched]
    st_call,       \* record store: the read that returned last
    bk_call,       \* bucket: the call that returned last
    bk_uploads,    \* bucket: the number of uploads that wrote an object
    cfg,           \* the settings of class Config, fixed when it is loaded
    cf_out,        \* configuration: [done, valid, missing], what the check gave
    gm_env,        \* model client: [working, model_name], the models that
                   \* initialize and the model_name argument
    gm_client,     \* model client: [state, model_name, tried]
    gm_rec,        \* model client: [made, rec], the record it produced last
    mn_pc,         \* main: where the run is: start, init, list, form, returned
    mn_steps,      \* main: the steps this run has taken
    mn_runs,       \* main: the number of runs that returned before this one
    clients,       \* st.session_state: the three clients, "" and FALSE being None
    patients,      \* main: the patient list of this run
    session,       \* st.session_state: current_patient, current_summaries,
                   \* current_analysis
    report         \* main: what display_full_report showed in this run

vars == <<bucket, store, clock, pc, scan_patient, images, idx, results, log,
          saves, runs, prev, listed_ok, shown, ex_call, ex_out, an_in, an_out,
          mq_query, mq_meas, mq_out, st_call, bk_call, bk_uploads,
          cfg, cf_out, gm_env, gm_client, gm_rec, mn_pc, mn_steps, mn_runs, clients,
          patients, session, report>>

scanVars == <<bucket, store, clock, pc, scan_patient, images, idx, results, log,
              saves, runs, prev, listed_ok, shown>>

scanRest == <<store, clock, pc, scan_patient, images, idx, results, log, saves, runs,
              prev, listed_ok, shown>>

exVars == <<ex_call, ex_out>>

anVars == <<an_in, an_out>>

mqVars == <<mq_query, mq_meas, mq_out>>

stVars == <<st_call>>

bkVars == <<bk_call, bk_uploads>>

cfVars == <<cfg, cf_out>>

gmVars == <<gm_env, gm_client, gm_rec>>

mnVars == <<mn_pc, mn_steps, mn_runs, clients, patients, session, report>>

appVars == <<bkVars, cfVars, gmVars, mnVars>>

\* NewResults that starts with an error listed
NewResultsWithError(patient_name) ==
    [patient_name |-> patient_name, total_images |-> 0, processed |-> 0,
     failed |-> 0, summaries |-> <<>>,
     errors |-> <<[image |-> <<>>, error |-> <<"No images found">>]>>]

\* results as scan_patient_folder creates it
NewResults(patient_name) ==
    [patient_name |-> patient_name, total_images |-> 0, processed |-> 0,
     failed |-> 0, summaries |-> <<>>, errors |-> <<>>]

NoPrev == [valid |-> FALSE, patient |-> <<>>, images |-> <<>>, summaries |-> <<>>,
           ndocs |-> 0]

ScanRestIdle ==
    /\ store = <<>>
    /\ clock = 0
    /\ pc = "idle"
    /\ scan_patient = <<>>
    /\ images = <<>>
    /\ idx = 0
    /\ results = NewResults(<<>>)
    /\ log = <<>>
    /\ saves = <<>>
    /\ runs = 0
    /\ prev = NoPrev
    /\ listed_ok = TRUE
    /\ shown = <<>>

ScanIdle ==
    /\ bucket = InitialObjects
    /\ ScanRestIdle

ExtractIdle ==
    /\ ex_call = TextCall(<<>>)
    /\ ex_out = <<>>

AnalysisIdle ==
    /\ an_in = <<>>
    /\ an_out = [done |-> FALSE, analysis |-> <<>>]

NoQuery == [name |-> <<>>, op |-> <<>>, num |-> <<>>, spaced |-> FALSE]

MatchIdle ==
    /\ mq_query = NoQuery
    /\ mq_meas = <<>>
    /\ mq_out = [done |-> FALSE, matched |-> FALSE]

NoCall == [op |-> "none", patient |-> <<>>, query |-> <<>>, ok |-> TRUE,
           order |-> <<>>, result |-> <<>>]

StoreIdle == st_call = NoCall

NoBucketCall == [op |-> "none", patient |-> <<>>, file |-> <<>>, prefixes |-> {},
                 ok |-> TRUE, raised |-> FALSE, result |-> <<>>]

BucketIdle ==
    /\ bk_call = NoBucketCall
    /\ bk_uploads = 0

\* the settings when every environment variable has a value
DefaultConfig ==
    [GCP_PROJECT_ID |-> "v", GCS_BUCKET_NAME |-> "v", FIRESTORE_COLLECTION |-> "v",
     GEMINI_API_KEY |-> "v", GEMINI_MODEL |-> GEMINI_MODEL, MAX_IMAGE_SIZE_MB |-> 10]

NoCheck == [done |-> FALSE, valid |-> FALSE, missing |-> <<>>]

ConfigIdle ==
    /\ cfg = DefaultConfig
    /\ cf_out = NoCheck

NoClient == [state |-> "none", model_name |-> "", tried |-> <<>>]

NoRecord == [made |-> FALSE, rec |-> ErrorRecord(<<>>, "")]

GeminiIdle ==
    /\ gm_env = [working |-> {}, model_name |-> ""]
    /\ gm_client = NoClient
    /\ gm_rec = NoRecord

NoClients == [gcs |-> FALSE, gemini |-> "", firestore |-> FALSE]

NoSession == [current_patient |-> <<>>, current_summaries |-> <<>>,
              current_analysis |-> <<>>]

NoReport == [shown |-> "none", patient |-> <<>>, summaries |-> <<>>, analysis |-> <<>>]

MainIdle ==
    /\ mn_pc = "start"
    /\ mn_steps = <<>>
    /\ mn_runs = 0
    /\ clients = NoClients
    /\ patients = <<>>
    /\ session = NoSession
    /\ report = NoReport

AppIdle == BucketIdle /\ ConfigIdle /\ GeminiIdle /\ MainIdle

Init == ScanIdle /\ ExtractIdle /\ AnalysisIdle /\ MatchIdle /\ StoreIdle /\ AppIdle

\* ------------------------------------------------------------------------
\* scan_patient_folder
\* ------------------------------------------------------------------------

\* RecordFailure without the count: the error is listed, failed is not
\* incremented
RecordFailureUncounted(res, image_path, error_msg) ==
    [res EXCEPT !.errors = Append(@, [image |-> image_path, error |-> error_msg])]

\* results["errors"].append(...); results["failed"] += 1
RecordFailure(res, image_path, error_msg) ==
    [res EXCEPT !.errors = Append(@, [image |-> image_path, error |-> error_msg]),
                !.failed = @ + 1]

\* RecordSuccess that inserts the new summary at the head of the list
RecordSuccessAtHead(res, image_path, doc_id, summary_data) ==
    [res EXCEPT !.processed = @ + 1,
                !.summaries = <<[image_path |-> image_path,
                                 doc_id |-> doc_id,
                                 summary |-> summary_data.summary]>> \o @]

\* results["processed"] += 1; results["summaries"].append(...)
RecordSuccess(res, image_path, doc_id, summary_data) ==
    [res EXCEPT !.processed = @ + 1,
                !.summaries = Append(@, [image_path |-> image_path,
                                         doc_id |-> doc_id,
                                         summary |-> summary_data.summary])]

\* the str content of a field that holds a Python str
StrContent(v) == SubSeq(v, 2, Len(v) - 1)

\* the kind of reply a model call gave
ReplyKind(call) ==
    IF call.raises THEN "raised" ELSE IF call.text = <<>> THEN "empty" ELSE "text"

\* the listing, the empty-listing return, and the entry into the loop.
\* list_patient_images returns [] when the listing raises, so the outer
\* except and its st.error are not entered.
\* StartScan that empties the collection before it lists
StartScanClearingStore(patient_name) ==
    /\ pc = "idle"
    /\ \E ok \in BOOLEAN :
        \E listing \in {ListPatientImages(bucket, patient_name, ok)} :
            /\ images' = listing
            /\ results' = [NewResults(patient_name) EXCEPT !.total_images = Len(listing)]
            /\ pc' = IF listing = <<>> THEN "done" ELSE "scanning"
            /\ listed_ok' = ok
    /\ shown' = <<>>
    /\ scan_patient' = patient_name
    /\ idx' = 1
    /\ log' = <<>>
    /\ store' = <<>>
    /\ UNCHANGED <<bucket, clock, saves, runs, prev, exVars, anVars,
                   mqVars, stVars, appVars>>

\* the head of scan_patient_folder: the listing and the empty results
StartScan(patient_name) ==
    /\ pc = "idle"
    /\ \E ok \in BOOLEAN :
        \E listing \in {ListPatientImages(bucket, patient_name, ok)} :
            /\ images' = listing
            /\ results' = [NewResults(patient_name) EXCEPT !.total_images = Len(listing)]
            /\ pc' = IF listing = <<>> THEN "done" ELSE "scanning"
            /\ listed_ok' = ok
    /\ shown' = <<>>
    /\ scan_patient' = patient_name
    /\ idx' = 1
    /\ log' = <<>>
    /\ UNCHANGED <<bucket, store, clock, saves, runs, prev, exVars, anVars,
                   mqVars, stVars, appVars>>

\* HasError that never sees the error key
HasErrorIgnored(summary_data) == FALSE

\* "error" in summary_data
HasError(summary_data) == summary_data.has_error

\* GetImageMetadata that gives a mapping even when reading the blob raised
GetImageMetadataNeverEmpty(md) == "mapping"

\* get_image_metadata: the mapping of the blob, or {} when reading the blob
\* raised
GetImageMetadata(md) == IF md = "ok" THEN "mapping" ELSE "empty"

\* what the stages of one iteration gave: dl is download_image's return,
\* md whether the metadata fetch worked, reply the kind of reply of the
\* model, ext what
\* generate_clinical_summary did, sv what save_summary did; a stage that
\* was not reached is skipped
StageResults(image_path, dl, md, call, ext, sv) ==
    LET reached == dl = "image"
        extracted == reached /\ ~ext.propagated /\ ~ext.rec.has_error
    IN  [image |-> image_path,
         dl    |-> dl,
         md    |-> IF reached THEN md ELSE "skipped",
         reply |-> IF reached THEN ReplyKind(call) ELSE "skipped",
         ext   |-> IF ~reached THEN "skipped"
                   ELSE IF ext.propagated THEN "raised"
                   ELSE IF ext.rec.has_error THEN "error" ELSE "ok",
         sv    |-> IF extracted THEN sv ELSE "skipped"]

\* one iteration of the loop over the listing
ProcessImage ==
    /\ pc = "scanning"
    /\ idx <= Len(images)
    /\ \E dl \in {"image", "none"}, md \in {"ok", "fail"}, call \in ScanCalls,
          sv \in {"ok", "raise"} :
       \E ext \in {GenerateClinicalSummary(call, GEMINI_MODEL)} :
       \E image_path \in {images[idx]} :
       \E doc_id \in {DocId(scan_patient, LastSegment(image_path))} :
            /\ log' = Append(log, StageResults(image_path, dl, md, call, ext, sv))
            /\ IF dl = "none"
               THEN /\ results' = RecordFailure(results, image_path,
                                      <<"Failed to download image: ">> \o image_path)
                    /\ UNCHANGED <<store, clock, saves>>
               ELSE IF ext.propagated
               THEN /\ results' = RecordFailure(results, image_path,
                                      <<"Gemini API error: ">> \o ext.exc)
                    /\ UNCHANGED <<store, clock, saves>>
               ELSE IF HasError(ext.rec)
               THEN /\ results' = RecordFailure(results, image_path,
                                      <<"Gemini API error: ">> \o StrContent(ext.rec.error))
                    /\ UNCHANGED <<store, clock, saves>>
               ELSE IF sv = "raise"
               THEN /\ results' = RecordFailure(results, image_path,
                                      <<"Firestore save error: ", "unavailable">>)
                    /\ UNCHANGED <<store, clock, saves>>
               ELSE /\ store' = SetDocument(store, doc_id,
                                    DocData(scan_patient, image_path, ext.rec,
                                            GetImageMetadata(md) # "empty",
                                            clock + 1))
                    /\ clock' = clock + 1
                    /\ saves' = Append(saves, [patient |-> scan_patient,
                                               filename |-> LastSegment(image_path),
                                               doc_id |-> doc_id])
                    /\ results' = RecordSuccess(results, image_path, doc_id, ext.rec)
    /\ idx' = idx + 1
    /\ UNCHANGED <<bucket, pc, scan_patient, images, runs, prev, listed_ok, shown,
                   exVars, anVars, mqVars, stVars, appVars>>

\* the loop is over: return results
ReturnResults ==
    /\ pc = "scanning"
    /\ idx > Len(images)
    /\ pc' = "done"
    /\ UNCHANGED <<bucket, store, clock, scan_patient, images, idx, results, log,
                   saves, runs, prev, listed_ok, shown, exVars, anVars, mqVars,
                   stVars, appVars>>

\* the caller has the results; the next scan may start
NextScan ==
    /\ pc = "done"
    /\ runs + 1 < MaxScans
    /\ pc' = "idle"
    /\ runs' = runs + 1
    /\ prev' = [valid |-> TRUE, patient |-> scan_patient, images |-> images,
                summaries |-> results.summaries,
                ndocs |-> Cardinality(DOMAIN store)]
    /\ UNCHANGED <<bucket, store, clock, scan_patient, images, idx, results, log,
                   saves, listed_ok, shown, exVars, anVars, mqVars, stVars, appVars>>

Next ==
    \/ \E p \in Patients : StartScan(p)
    \/ ProcessImage
    \/ ReturnResults
    \/ NextScan

Spec == Init /\ [][Next]_vars

\* ------------------------------------------------------------------------
\* The extraction client on its own: one model call, extracted under every
\* form of reply
\* ------------------------------------------------------------------------
InitExtract ==
    /\ ScanIdle
    /\ AnalysisIdle
    /\ MatchIdle
    /\ StoreIdle
    /\ AppIdle
    /\ ex_call \in ExtractCalls
    /\ ex_out = <<>>

\* the reply that carries the body of ex_call in form f
ReplyCall(call, f) ==
    IF call.raises THEN call ELSE [call EXCEPT !.text = Wrap(f, call.text)]

Extract(f) ==
    /\ f \notin DOMAIN ex_out
    /\ \E out \in {GenerateClinicalSummary(ReplyCall(ex_call, f), GEMINI_MODEL)} :
          ex_out' = [g \in DOMAIN ex_out \cup {f} |-> IF g = f THEN out ELSE ex_out[g]]
    /\ UNCHANGED <<ex_call, scanVars, anVars, mqVars, stVars, appVars>>

NextExtract == \E f \in Forms : Extract(f)

SpecExtract == InitExtract /\ [][NextExtract]_vars

\* ------------------------------------------------------------------------
\* generate_patient_analysis
\*
\* A summary is a dict given as a function from the keys it has; a list
\* field holds a sequence of strings, measurements a function from
\* measurement names to values.  The empty dict is the function of no keys.
\* ------------------------------------------------------------------------

\* d.get(key, default)
Get(d, key, default) == IF key \in DOMAIN d THEN d[key] ELSE default

\* the elements of a list
Elems(xs) == { xs[i] : i \in 1..Len(xs) }

\* DictFromKeys that keeps the last occurrence of a repeated string
RECURSIVE DictFromKeysKeepLast(_)
DictFromKeysKeepLast(xs) ==
    IF xs = <<>> THEN <<>>
    ELSE IF Head(xs) \in Elems(Tail(xs)) THEN DictFromKeysKeepLast(Tail(xs))
    ELSE <<Head(xs)>> \o DictFromKeysKeepLast(Tail(xs))

\* list(dict.fromkeys(xs)): a key is inserted when it is first met
RECURSIVE DictFromKeys(_)
DictFromKeys(xs) ==
    IF xs = <<>> THEN <<>>
    ELSE LET front == DictFromKeys(SubSeq(xs, 1, Len(xs) - 1))
             last == xs[Len(xs)]
         IN  IF last \in Elems(front) THEN front ELSE Append(front, last)

\* AddMeasurements that does not append a value the list already holds
AddMeasurementsUnique(all_measurements, measurements) ==
    [key \in DOMAIN all_measurements \cup DOMAIN measurements |->
        IF key \notin DOMAIN measurements THEN all_measurements[key]
        ELSE IF key \notin DOMAIN all_measurements THEN <<measurements[key]>>
        ELSE IF measurements[key] \in Elems(all_measurements[key])
        THEN all_measurements[key]
        ELSE Append(all_measurements[key], measurements[key])]

\* for key, value in measurements.items(): all_measurements[key] gets value
\* appended, after being created empty when it is new
AddMeasurements(all_measurements, measurements) ==
    [key \in DOMAIN all_measurements \cup DOMAIN measurements |->
        IF key \notin DOMAIN measurements THEN all_measurements[key]
        ELSE IF key \notin DOMAIN all_measurements THEN <<measurements[key]>>
        ELSE Append(all_measurements[key], measurements[key])]

\* all_measurements after the loop over the first n summaries
RECURSIVE AllMeasurements(_, _)
AllMeasurements(summaries, n) ==
    IF n = 0 THEN <<>>
    ELSE AddMeasurements(AllMeasurements(summaries, n - 1),
                         Get(summaries[n], "measurements", <<>>))

\* the list all_<field> after the loop over the first n summaries
RECURSIVE Extended(_, _, _)
Extended(summaries, field, n) ==
    IF n = 0 THEN <<>>
    ELSE Extended(summaries, field, n - 1) \o Get(summaries[n], field, <<>>)

\* GeneratePatientAnalysis that returns a filled analysis for no summaries
GeneratePatientAnalysisFilled(summaries) ==
    [total_reports   |-> Len(summaries),
     measurements    |-> AllMeasurements(summaries, Len(summaries)),
     abnormalities   |-> DictFromKeys(Extended(summaries, "abnormalities", Len(summaries))),
     prescriptions   |-> DictFromKeys(Extended(summaries, "prescriptions", Len(summaries))),
     exercises       |-> DictFromKeys(Extended(summaries, "exercises", Len(summaries))),
     dietary         |-> DictFromKeys(Extended(summaries, "dietary", Len(summaries))),
     recommendations |-> DictFromKeys(Extended(summaries, "recommendations", Len(summaries))),
     summary_text    |-> <<"Comprehensive analysis based on ", ToString(Len(summaries)),
                           " report(s).">>]

\* the analysis dict; {} for no summaries
GeneratePatientAnalysis(summaries) ==
    IF summaries = <<>> THEN <<>>
    ELSE
    [total_reports   |-> Len(summaries),
     measurements    |-> AllMeasurements(summaries, Len(summaries)),
     abnormalities   |-> DictFromKeys(Extended(summaries, "abnormalities", Len(summaries))),
     prescriptions   |-> DictFromKeys(Extended(summaries, "prescriptions", Len(summaries))),
     exercises       |-> DictFromKeys(Extended(summaries, "exercises", Len(summaries))),
     dietary         |-> DictFromKeys(Extended(summaries, "dietary", Len(summaries))),
     recommendations |-> DictFromKeys(Extended(summaries, "recommendations", Len(summaries))),
     summary_text    |-> <<"Comprehensive analysis based on ", ToString(Len(summaries)),
                           " report(s).">>]

\* the summaries the analysis is given
MaxRecords == 2

MeasurementNames == {"BP", "HR"}
MeasurementValues == {"120/80", "72 bpm"}

MeasurementDicts == UNION { [S -> MeasurementValues] : S \in SUBSET MeasurementNames }

ListValues ==
    { <<>>, <<"A">>, <<"C">>, <<"A", "B">>, <<"B", "C">>, <<"B", "A">>, <<"A", "A">> }

\* a summary with measurements alone, with one list field alone, with no
\* key, and with every key
AnalysisSummaries ==
    { [measurements |-> m] : m \in MeasurementDicts }
    \cup { [key \in {f} |-> xs] : f \in ListFields, xs \in ListValues }
    \cup { <<>> }
    \cup { [measurements    |-> [key \in {"BP"} |-> v],
            abnormalities   |-> xs,
            prescriptions   |-> <<"B">>,
            exercises       |-> <<>>,
            dietary         |-> <<"A", "B">>,
            recommendations |-> <<"C", "A">>] :
            v \in MeasurementValues, xs \in { <<"A", "B">>, <<"B", "C">> } }

InitAnalysis ==
    /\ ScanIdle
    /\ ExtractIdle
    /\ MatchIdle
    /\ StoreIdle
    /\ AppIdle
    /\ an_in \in UNION { [1..n -> AnalysisSummaries] : n \in 0..MaxRecords }
    /\ an_out = [done |-> FALSE, analysis |-> <<>>]

Analyze ==
    /\ ~an_out.done
    /\ \E analysis \in {GeneratePatientAnalysis(an_in)} :
          an_out' = [done |-> TRUE, analysis |-> analysis]
    /\ UNCHANGED <<an_in, scanVars, exVars, mqVars, stVars, appVars>>

NextAnalysis == Analyze

SpecAnalysis == InitAnalysis /\ [][NextAnalysis]_vars

\* ------------------------------------------------------------------------
\* FirestoreClient._matches_measurement_query
\*
\* A query, a measurement name and a measurement value are lexeme
\* sequences: a word of letters is one lexeme, a digit is one lexeme, and
\* so are a comparison sign, the point and the blank.  A number read from
\* a measurement value is held in hundredths.
\* ------------------------------------------------------------------------
LT == "<"
GT == ">"
EQ == "="
DOT == "."

Digits == {"0", "1", "2", "3", "4", "5", "6", "7", "8", "9"}

\* the characters of [<>=]
OpChars == {LT, GT, EQ}

\* \w
IsWordChar(c) == c \notin OpChars \cup {WS, DOT, SEP}

Max(S) == CHOOSE x \in S : \A y \in S : x >= y

Abs(n) == IF n < 0 THEN -n ELSE n

\* str.lower()
StrLower(text) == [i \in 1..Len(text) |-> LowerLexeme(text[i])]

DigitValue(c) == CHOOSE n \in 0..9 : ToString(n) = c

\* int of a run of digits
RECURSIVE IntValue(_)
IntValue(ds) ==
    IF ds = <<>> THEN 0
    ELSE IntValue(SubSeq(ds, 1, Len(ds) - 1)) * 10 + DigitValue(ds[Len(ds)])

\* the last position of the longest run of \w, of [<>=], of \d from i
WordRunEnd(t, i) == Max({ e \in i..Len(t) : \A k \in i..e : IsWordChar(t[k]) })

OpRunEnd(t, i) == Max({ e \in i..Len(t) : \A k \in i..e : t[k] \in OpChars })

DigitRunEnd(t, i) == Max({ e \in i..Len(t) : \A k \in i..e : t[k] \in Digits })

NoMatch == [ok |-> FALSE, param |-> <<>>, op |-> <<>>, value |-> 0]

\* (\w+)\s*([<>=]+)\s*(\d+) matched from position s
Pattern1At(t, s) ==
    IF s > Len(t) \/ ~IsWordChar(t[s]) THEN NoMatch
    ELSE LET e == WordRunEnd(t, s)
             o == SkipWs(t, e + 1)
         IN  IF o > Len(t) \/ t[o] \notin OpChars THEN NoMatch
             ELSE LET oe == OpRunEnd(t, o)
                      d == SkipWs(t, oe + 1)
                  IN  IF d > Len(t) \/ t[d] \notin Digits THEN NoMatch
                      ELSE [ok |-> TRUE,
                            param |-> SubSeq(t, s, e),
                            op |-> SubSeq(t, o, oe),
                            value |-> IntValue(SubSeq(t, d, DigitRunEnd(t, d)))]

\* (\w+)\s*(\d+) matched from position s: the word run, blanks and a
\* number; failing that, the word run gives back its end up to its last
\* digit, which alone becomes the number
Pattern2At(t, s) ==
    IF s > Len(t) \/ ~IsWordChar(t[s]) THEN NoMatch
    ELSE LET e == WordRunEnd(t, s)
             d == SkipWs(t, e + 1)
             inner == { k \in (s + 1)..e : t[k] \in Digits }
         IN  IF d <= Len(t) /\ t[d] \in Digits
             THEN [ok |-> TRUE,
                   param |-> SubSeq(t, s, e),
                   op |-> <<>>,
                   value |-> IntValue(SubSeq(t, d, DigitRunEnd(t, d)))]
             ELSE IF inner # {}
             THEN [ok |-> TRUE,
                   param |-> SubSeq(t, s, Max(inner) - 1),
                   op |-> <<>>,
                   value |-> DigitValue(t[Max(inner)])]
             ELSE NoMatch

\* re.search: the match from the leftmost position that has one
Search1(t) ==
    LET hits == { s \in 1..Len(t) : Pattern1At(t, s).ok }
    IN  IF hits = {} THEN NoMatch ELSE Pattern1At(t, Min(hits))

Search2(t) ==
    LET hits == { s \in 1..Len(t) : Pattern2At(t, s).ok }
    IN  IF hits = {} THEN NoMatch ELSE Pattern2At(t, Min(hits))

Scale == 100

\* the digits after the point, in hundredths; a value has two at most
FracValue(ds) ==
    IF ds = <<>> THEN 0
    ELSE IF Len(ds) = 1 THEN DigitValue(ds[1]) * 10
    ELSE DigitValue(ds[1]) * 10 + DigitValue(ds[2])

\* float(re.findall(r"\d+\.?\d*", str(meas_value))[0]), in hundredths;
\* found = FALSE when the value has no digit
LeadingNumber(meas_value) ==
    LET ds == { i \in 1..Len(meas_value) : meas_value[i] \in Digits }
    IN  IF ds = {} THEN [found |-> FALSE, num |-> 0]
        ELSE LET i == Min(ds)
                 e == DigitRunEnd(meas_value, i)
                 hasFrac == /\ e + 2 <= Len(meas_value)
                            /\ meas_value[e + 1] = DOT
                            /\ meas_value[e + 2] \in Digits
                 frac == IF hasFrac
                         THEN SubSeq(meas_value, e + 2, DigitRunEnd(meas_value, e + 2))
                         ELSE <<>>
             IN  [found |-> TRUE,
                  num |-> IntValue(SubSeq(meas_value, i, e)) * Scale + FracValue(frac)]

\* abs(meas_num - value) < 0.1
WithinTolerance(meas_num, value) == Abs(meas_num - value * Scale) * 10 < Scale

\* the if/elif chain on op; an op of "=" is true whatever the numbers,
\* since "and" binds tighter than "or"
Satisfies(op, meas_num, value) ==
    IF op # <<>>
    THEN IF op = <<LT>> /\ meas_num < value * Scale THEN TRUE
         ELSE IF op = <<GT>> /\ meas_num > value * Scale THEN TRUE
         ELSE IF op = <<EQ>> \/ (op = <<EQ, EQ>> /\ WithinTolerance(meas_num, value))
         THEN TRUE
         ELSE FALSE
    ELSE WithinTolerance(meas_num, value)

\* the loop over measurements.items() for one pattern's match m
MatchWith(m, measurements) ==
    /\ m.ok
    /\ \E meas_key \in DOMAIN measurements :
          /\ PyContains(StrLower(meas_key), m.param)
          /\ LeadingNumber(measurements[meas_key]).found
          /\ Satisfies(m.op, LeadingNumber(measurements[meas_key]).num, m.value)

\* both patterns are tried in turn
MatchesMeasurementQuery(query, measurements) ==
    LET query_lower == StrLower(query)
    IN  \/ MatchWith(Search1(query_lower), measurements)
        \/ MatchWith(Search2(query_lower), measurements)

\* the queries and measurements the rule is given
MaxMeasurements == 1

QueryNames ==
    { <<"bp">>, <<"BP">>, <<"heart", WS, "rate">>, <<"Heart", WS, "Rate">>, <<"rate">> }

QueryOps == { <<LT>>, <<GT>>, <<EQ>>, <<EQ, EQ>>, <<GT, EQ>>, <<>> }

QueryNums == { <<"1", "0", "0">>, <<"1", "5", "0">>, <<"1", "2", "0">>, <<"8", "0">> }

Queries ==
    { [name |-> n, op |-> o, num |-> v, spaced |-> sp] :
        n \in QueryNames, o \in QueryOps, v \in QueryNums, sp \in BOOLEAN }

\* the text of a query: name, op and number, with or without blanks
QueryText(q) ==
    LET blank == IF q.spaced THEN <<WS>> ELSE <<>>
    IN  IF q.op = <<>> THEN q.name \o blank \o q.num
        ELSE q.name \o blank \o q.op \o blank \o q.num

MeasurementKeys ==
    { <<"BP">>, <<"Heart", WS, "Rate">>, <<"Respiratory", WS, "Rate">> }

MeasurementTexts ==
    { <<"1", "0", "2", WS, "bpm">>, <<"1", "2", "0", SEP, "8", "0">>, <<"8", "0">>,
      <<"1", "2", "0", DOT, "0", "5">>, <<"high">> }

MatchMeasurements ==
    UNION { [S -> MeasurementTexts] :
              S \in { T \in SUBSET MeasurementKeys : Cardinality(T) <= MaxMeasurements } }

InitMatch ==
    /\ ScanIdle
    /\ ExtractIdle
    /\ AnalysisIdle
    /\ StoreIdle
    /\ AppIdle
    /\ mq_query \in Queries
    /\ mq_meas \in MatchMeasurements
    /\ mq_out = [done |-> FALSE, matched |-> FALSE]

Match ==
    /\ ~mq_out.done
    /\ \E matched \in {MatchesMeasurementQuery(QueryText(mq_query), mq_meas)} :
          mq_out' = [done |-> TRUE, matched |-> matched]
    /\ UNCHANGED <<mq_query, mq_meas, scanVars, exVars, anVars, stVars, appVars>>

NextMatch == Match

SpecMatch == InitMatch /\ [][NextMatch]_vars

\* ------------------------------------------------------------------------
\* FirestoreClient.get_patient_summaries and search_by_nl_query
\*
\* Here a document's fields hold the Python values themselves: summary and
\* each abnormality a text, measurements a function from names to values.
\* A read streams the documents in an order of the store's choosing, given
\* as a sequence of document ids; what a read returns is the sequence of
\* the ids of the documents it returns (each returned dict is the document
\* with its doc_id added).
\* ------------------------------------------------------------------------

\* SamePatient that ignores case
SamePatientIgnoreCase(a, b) == StrLower(a) = StrLower(b)

\* where("patient_name", "==", patient_name)
SamePatient(a, b) == a = b

\* summaries.sort(key=created_at, reverse=True): a stable sort, so a
\* document goes after those already placed that are as new or newer
RECURSIVE SortNewestFirst(_, _)
SortNewestFirst(docs, ids) ==
    IF ids = <<>> THEN <<>>
    ELSE LET placed == SortNewestFirst(docs, SubSeq(ids, 1, Len(ids) - 1))
             d == ids[Len(ids)]
             ahead == Cardinality({ i \in 1..Len(placed) :
                                      docs[placed[i]].created_at >= docs[d].created_at })
         IN  SubSeq(placed, 1, ahead) \o <<d>> \o SubSeq(placed, ahead + 1, Len(placed))

\* get_patient_summaries; ok = FALSE is the query raising, which is caught
GetPatientSummaries(docs, order, patient_name, ok) ==
    IF ok
    THEN SortNewestFirst(docs,
            SelectSeq(order, LAMBDA d : SamePatient(docs[d].patient_name, patient_name)))
    ELSE <<>>

\* the three rules of the loop body of search_by_nl_query
DocMatches(doc_data, query_text) ==
    LET query_lower == StrLower(query_text)
    IN  \/ PyContains(StrLower(doc_data.summary), query_lower)
        \/ MatchesMeasurementQuery(query_text, doc_data.measurements)
        \/ \E i \in 1..Len(doc_data.abnormalities) :
              PyContains(StrLower(doc_data.abnormalities[i]), query_lower)

\* UniquePatients that keeps a patient's last match
RECURSIVE UniquePatientsKeepLast(_, _)
UniquePatientsKeepLast(docs, matching) ==
    IF matching = <<>> THEN <<>>
    ELSE IF \E i \in 2..Len(matching) :
               docs[matching[i]].patient_name = docs[Head(matching)].patient_name
    THEN UniquePatientsKeepLast(docs, Tail(matching))
    ELSE <<Head(matching)>> \o UniquePatientsKeepLast(docs, Tail(matching))

\* list(unique_patients.values()): a summary enters when its patient_name
\* is not yet a key
RECURSIVE UniquePatients(_, _)
UniquePatients(docs, matching) ==
    IF matching = <<>> THEN <<>>
    ELSE LET kept == UniquePatients(docs, SubSeq(matching, 1, Len(matching) - 1))
             d == matching[Len(matching)]
         IN  IF \E i \in 1..Len(kept) : docs[kept[i]].patient_name = docs[d].patient_name
             THEN kept
             ELSE Append(kept, d)

\* search_by_nl_query; ok = FALSE is the stream raising, which is caught
SearchByNlQuery(docs, order, query_text, ok) ==
    IF ok
    THEN UniquePatients(docs,
            SelectSeq(order, LAMBDA d : DocMatches(docs[d], query_text)))
    ELSE <<>>

\* the saves and reads of the store specification
MaxSaves == 3

StorePatients == { <<"p">>, <<"P">> }

ReadPatients == StorePatients \cup { <<"q">> }

StoreFiles == { <<"x", ".png">>, <<"y", ".png">> }

\* summary_data as generate_clinical_summary returns it
StoreSummary(summary, measurements, abnormalities) ==
    [summary         |-> summary,
     measurements    |-> measurements,
     abnormalities   |-> abnormalities,
     prescriptions   |-> <<>>,
     exercises       |-> <<>>,
     dietary         |-> <<>>,
     recommendations |-> <<>>,
     model_used      |-> GEMINI_MODEL,
     has_error       |-> FALSE,
     error           |-> <<>>]

StoreSummaries ==
    { StoreSummary(<<"Fracture", WS, "seen">>, <<>>, <<>>),
      StoreSummary(<<"ok">>,
                   [key \in {<<"BP">>} |-> <<"1", "2", "0", SEP, "8", "0">>],
                   << <<"Fracture">> >>),
      StoreSummary(<<"ok">>, [key \in {<<"BP">>} |-> <<"8", "0">>], <<>>) }

StoreQueries ==
    { <<"fracture">>, <<"bp", WS, GT, WS, "1", "0", "0">>, <<"zzz">>, <<>> }

\* the orders in which a stream may give the documents ids
Orders(ids) ==
    { order \in [1..Cardinality(ids) -> ids] :
        \A i, j \in 1..Cardinality(ids) : order[i] = order[j] => i = j }

InitStore ==
    /\ ScanIdle
    /\ ExtractIdle
    /\ AnalysisIdle
    /\ MatchIdle
    /\ StoreIdle
    /\ AppIdle

\* save_summary(patient_name, patient_name/filename, summary_data, metadata)
SaveSummary(patient_name, filename, summary_data) ==
    /\ st_call = NoCall
    /\ clock < MaxSaves
    /\ \E image_name \in {patient_name \o <<SEP>> \o filename} :
          store' = SetDocument(store, DocId(patient_name, LastSegment(image_name)),
                               DocData(patient_name, image_name, summary_data,
                                       TRUE, clock + 1))
    /\ clock' = clock + 1
    /\ UNCHANGED <<bucket, pc, scan_patient, images, idx, results, log, saves, runs,
                   prev, listed_ok, shown, exVars, anVars, mqVars, stVars, appVars>>

ReadSummaries(patient_name) ==
    /\ st_call = NoCall
    /\ \E ok \in BOOLEAN :
       \E order \in (IF ok THEN Orders(DOMAIN store) ELSE {<<>>}) :
       \E result \in {GetPatientSummaries(store, order, patient_name, ok)} :
          st_call' = [op |-> "get", patient |-> patient_name, query |-> <<>>,
                      ok |-> ok, order |-> order, result |-> result]
    /\ UNCHANGED <<scanVars, exVars, anVars, mqVars, appVars>>

Search(query_text) ==
    /\ st_call = NoCall
    /\ \E ok \in BOOLEAN :
       \E order \in (IF ok THEN Orders(DOMAIN store) ELSE {<<>>}) :
       \E result \in {SearchByNlQuery(store, order, query_text, ok)} :
          st_call' = [op |-> "search", patient |-> <<>>, query |-> query_text,
                      ok |-> ok, order |-> order, result |-> result]
    /\ UNCHANGED <<scanVars, exVars, anVars, mqVars, appVars>>

\* the caller has what the read returned; the next call may start
ReadReturned ==
    /\ st_call # NoCall
    /\ st_call' = NoCall
    /\ UNCHANGED <<scanVars, exVars, anVars, mqVars, appVars>>

NextStore ==
    \/ \E patient_name \in StorePatients, filename \in StoreFiles,
          summary_data \in StoreSummaries :
            SaveSummary(patient_name, filename, summary_data)
    \/ \E patient_name \in ReadPatients : ReadSummaries(patient_name)
    \/ \E query_text \in StoreQueries : Search(query_text)
    \/ ReadReturned

SpecStore == InitStore /\ [][NextStore]_vars

\* ------------------------------------------------------------------------
\* The document ids of the record store: saves and reads for patient names
\* and file names that hold the character "_"
\* ------------------------------------------------------------------------

IdPatients == { <<"p">>, <<"p", UNDERSCORE, "x">> }

IdFiles == { <<"y", ".png">>, <<"x", UNDERSCORE, "y", ".png">> }

IdSummary == StoreSummary(<<"ok">>, <<>>, <<>>)

NextIds ==
    \/ \E patient_name \in IdPatients, filename \in IdFiles :
          SaveSummary(patient_name, filename, IdSummary)
    \/ \E patient_name \in IdPatients : ReadSummaries(patient_name)
    \/ ReadReturned

SpecIds == InitStore /\ [][NextIds]_vars

\* ------------------------------------------------------------------------
\* Config.validate and Config.get_missing_configs
\*
\* A text setting is a string, "" when its environment variable is unset and
\* has no default or is set to nothing; MAX_IMAGE_SIZE_MB is an integer.
\* ------------------------------------------------------------------------

\* all([GCP_PROJECT_ID, GCS_BUCKET_NAME, GEMINI_API_KEY])
Validate(c) ==
    /\ c.GCP_PROJECT_ID # ""
    /\ c.GCS_BUCKET_NAME # ""
    /\ c.GEMINI_API_KEY # ""

\* GetMissingConfigs that also looks at the collection name
GetMissingConfigsWithCollection(c) ==
    (IF c.GCP_PROJECT_ID = "" THEN <<"GCP_PROJECT_ID">> ELSE <<>>)
    \o (IF c.GCS_BUCKET_NAME = "" THEN <<"GCS_BUCKET_NAME">> ELSE <<>>)
    \o (IF c.FIRESTORE_COLLECTION = "" THEN <<"FIRESTORE_COLLECTION">> ELSE <<>>)
    \o (IF c.GEMINI_API_KEY = "" THEN <<"GEMINI_API_KEY">> ELSE <<>>)

\* get_missing_configs: the three tests in the order of the code
GetMissingConfigs(c) ==
    (IF c.GCP_PROJECT_ID = "" THEN <<"GCP_PROJECT_ID">> ELSE <<>>)
    \o (IF c.GCS_BUCKET_NAME = "" THEN <<"GCS_BUCKET_NAME">> ELSE <<>>)
    \o (IF c.GEMINI_API_KEY = "" THEN <<"GEMINI_API_KEY">> ELSE <<>>)

\* the settings class Config may hold
Configs ==
    [GCP_PROJECT_ID : {"", "v"}, GCS_BUCKET_NAME : {"", "v"},
     FIRESTORE_COLLECTION : {"", "v"}, GEMINI_API_KEY : {"", "v"},
     GEMINI_MODEL : {"", GEMINI_MODEL}, MAX_IMAGE_SIZE_MB : {0, 10}]

InitConfig ==
    /\ ScanIdle
    /\ ExtractIdle
    /\ AnalysisIdle
    /\ MatchIdle
    /\ StoreIdle
    /\ BucketIdle
    /\ MainIdle
    /\ GeminiIdle
    /\ cfg \in Configs
    /\ cf_out = NoCheck

\* the configuration check at the head of main
CheckConfig ==
    /\ ~cf_out.done
    /\ cf_out' = [done |-> TRUE, valid |-> Validate(cfg),
                  missing |-> GetMissingConfigs(cfg)]
    /\ UNCHANGED <<cfg, scanVars, exVars, anVars, mqVars, stVars, bkVars, gmVars,
                   mnVars>>

NextConfig == CheckConfig

SpecConfig == InitConfig /\ [][NextConfig]_vars

\* ------------------------------------------------------------------------
\* GeminiClient.__init__ and the records of the client it makes
\* ------------------------------------------------------------------------

FallbackModels == <<"gemini-1.5-flash", "gemini-pro-vision", "gemini-1.0-pro-vision">>

\* the for loop over fallback_models from position n: the models tried and
\* whether one initialized
RECURSIVE TryFallbacks(_, _)
TryFallbacks(working, n) ==
    IF n > Len(FallbackModels) THEN [tried |-> <<>>, found |-> FALSE]
    ELSE IF FallbackModels[n] \in working
    THEN [tried |-> <<FallbackModels[n]>>, found |-> TRUE]
    ELSE LET rest == TryFallbacks(working, n + 1)
         IN  [tried |-> <<FallbackModels[n]>> \o rest.tried, found |-> rest.found]

\* InitGeminiClient that keeps the configured name after a fallback
InitGeminiClientKeepsName(model_name, config_model, working) ==
    LET name == IF model_name # "" THEN model_name ELSE config_model
        fb == TryFallbacks(working, 1)
    IN  IF name \in working
        THEN [state |-> "ready", model_name |-> name, tried |-> <<name>>]
        ELSE IF fb.found
        THEN [state |-> "ready", model_name |-> name, tried |-> <<name>> \o fb.tried]
        ELSE [state |-> "raised", model_name |-> "", tried |-> <<name>> \o fb.tried]

\* GeminiClient(model_name=model_name) when the models in working are the
\* ones genai.GenerativeModel accepts; "raised" is the exception of the else
\* branch, after which there is no client object
InitGeminiClient(model_name, config_model, working) ==
    LET name == IF model_name # "" THEN model_name ELSE config_model
        fb == TryFallbacks(working, 1)
    IN  IF name \in working
        THEN [state |-> "ready", model_name |-> name, tried |-> <<name>>]
        ELSE IF fb.found
        THEN [state |-> "ready", model_name |-> fb.tried[Len(fb.tried)],
              tried |-> <<name>> \o fb.tried]
        ELSE [state |-> "raised", model_name |-> "", tried |-> <<name>> \o fb.tried]

ModelNames == {GEMINI_MODEL} \cup Elems(FallbackModels)

InitGemini ==
    /\ ScanIdle
    /\ ExtractIdle
    /\ AnalysisIdle
    /\ MatchIdle
    /\ StoreIdle
    /\ BucketIdle
    /\ MainIdle
    /\ ConfigIdle
    /\ gm_env \in [working : SUBSET ModelNames, model_name : {"", "gemini-pro-vision"}]
    /\ gm_client = NoClient
    /\ gm_rec = NoRecord

NewGeminiClient ==
    /\ gm_client.state = "none"
    /\ gm_client' = InitGeminiClient(gm_env.model_name, cfg.GEMINI_MODEL, gm_env.working)
    /\ UNCHANGED <<gm_env, gm_rec, scanVars, exVars, anVars, mqVars, stVars, bkVars,
                   cfVars, mnVars>>

\* generate_clinical_summary on the client that was made
Summarize(call) ==
    /\ gm_client.state = "ready"
    /\ gm_rec' = [made |-> TRUE,
                  rec |-> GenerateClinicalSummary(call, gm_client.model_name).rec]
    /\ UNCHANGED <<gm_env, gm_client, scanVars, exVars, anVars, mqVars, stVars, bkVars,
                   cfVars, mnVars>>

NextGemini ==
    \/ NewGeminiClient
    \/ \E call \in ScanCalls : Summarize(call)

SpecGemini == InitGemini /\ [][NextGemini]_vars

\* ------------------------------------------------------------------------
\* main: one run per interaction, from the configuration check to the
\* report; the clients and the session view live on between the runs
\* ------------------------------------------------------------------------

\* the runs of main
MaxRuns == 3

\* the files offered to one upload
MaxFiles == 1

\* a Python list where the code expects a dict
PyListValue == [pytype |-> "list", items |-> <<>>]

\* the value has .items(), that is, it is a dict
IsDictValue(v) == "pytype" \notin DOMAIN v

\* generate_patient_analysis raises: measurements.items() on a value that
\* is no dict
GeneratePatientAnalysisRaises(summaries) ==
    \E i \in 1..Len(summaries) : ~IsDictValue(Get(summaries[i], "measurements", <<>>))

\* what the stages of one image of a scan give: a failure, a record of the
\* expected shape, or a record whose measurements field is a list
ImageOutcomes == {"fail", "ok", "odd"}

\* summary_data of an image whose stages succeeded
AppSummary(outcome) ==
    IF outcome = "ok"
    THEN StoreSummary(<<"ok">>, [key \in {"BP"} |-> <<"8", "0">>], << <<"Fracture">> >>)
    ELSE StoreSummary(<<"ok">>, PyListValue, <<>>)

\* the loop of scan_patient_folder from image n on: the collection and the
\* server time after it, and the two counters
RECURSIVE ScanImages(_, _, _, _, _, _)
ScanImages(docs, now, patient_name, listing, outcomes, n) ==
    IF n > Len(listing)
    THEN [docs |-> docs, clock |-> now, processed |-> 0, failed |-> 0]
    ELSE IF outcomes[n] = "fail"
    THEN LET rest == ScanImages(docs, now, patient_name, listing, outcomes, n + 1)
         IN  [rest EXCEPT !.failed = @ + 1]
    ELSE LET saved == SetDocument(docs, DocId(patient_name, LastSegment(listing[n])),
                                  DocData(patient_name, listing[n],
                                          AppSummary(outcomes[n]), TRUE, now + 1))
             rest == ScanImages(saved, now + 1, patient_name, listing, outcomes, n + 1)
         IN  [rest EXCEPT !.processed = @ + 1]

\* scan_patient_folder as one call
ScanPatientFolder(docs, now, listing, patient_name, outcomes) ==
    ScanImages(docs, now, patient_name, listing, outcomes, 1)

\* a returned summary: the document and its id
WithDocId(doc_data, doc_id) ==
    [k \in DOMAIN doc_data \cup {"doc_id"} |->
        IF k = "doc_id" THEN doc_id ELSE doc_data[k]]

\* the list get_patient_summaries returns
LoadSummaries(docs, order, patient_name, ok) ==
    LET ids == GetPatientSummaries(docs, order, patient_name, ok)
    IN  [i \in 1..Len(ids) |-> WithDocId(docs[ids[i]], ids[i])]

\* the session after summaries were loaded for the patient the handler has
\* just made current: both views are set, or both are emptied, or
\* generate_patient_analysis raises after the summaries were assigned
AssignViews(sess, summaries) ==
    IF summaries = <<>>
    THEN [sess EXCEPT !.current_summaries = <<>>, !.current_analysis = <<>>]
    ELSE IF GeneratePatientAnalysisRaises(summaries)
    THEN [sess EXCEPT !.current_summaries = summaries]
    ELSE [sess EXCEPT !.current_summaries = summaries,
                      !.current_analysis = GeneratePatientAnalysis(summaries)]

\* the tail of main and display_full_report: what is shown, and the session
\* after it
DisplayFullReport(sess) ==
    IF sess.current_patient = <<>> \/ sess.current_summaries = <<>>
    THEN [report |-> NoReport, session |-> sess]
    ELSE IF sess.current_analysis # <<>>
    THEN [report |-> [shown |-> "report", patient |-> sess.current_patient,
                      summaries |-> sess.current_summaries,
                      analysis |-> sess.current_analysis],
          session |-> sess]
    ELSE IF GeneratePatientAnalysisRaises(sess.current_summaries)
    THEN [report |-> [shown |-> "raised", patient |-> sess.current_patient,
                      summaries |-> sess.current_summaries, analysis |-> <<>>],
          session |-> sess]
    ELSE [report |-> [shown |-> "report", patient |-> sess.current_patient,
                      summaries |-> sess.current_summaries,
                      analysis |-> GeneratePatientAnalysis(sess.current_summaries)],
          session |-> [sess EXCEPT !.current_analysis =
                                       GeneratePatientAnalysis(sess.current_summaries)]]

\* initialize_clients: the clients after it and what it returned; a
\* constructor that raises leaves the clients made before it
InitializeClients(cl, gcs_ok, working, firestore_ok, config_model) ==
    IF ~cl.gcs /\ ~gcs_ok THEN [ok |-> FALSE, clients |-> cl]
    ELSE LET c1 == [cl EXCEPT !.gcs = TRUE]
             gm == InitGeminiClient("", config_model, working)
         IN  IF c1.gemini = "" /\ gm.state = "raised"
             THEN [ok |-> FALSE, clients |-> c1]
             ELSE LET c2 == IF c1.gemini = "" THEN [c1 EXCEPT !.gemini = gm.model_name]
                            ELSE c1
                  IN  IF ~c2.firestore /\ ~firestore_ok
                      THEN [ok |-> FALSE, clients |-> c2]
                      ELSE [ok |-> TRUE, clients |-> [c2 EXCEPT !.firestore = TRUE]]

\* the upload loop from file n on: a file without data is skipped, a raising
\* upload ends the loop with what was written before it
RECURSIVE UploadLoop(_, _, _, _, _)
UploadLoop(objects, patient_name, files, oks, n) ==
    IF n > Len(files) THEN [objects |-> objects, count |-> 0, raised |-> FALSE]
    ELSE IF ~files[n].data
    THEN UploadLoop(objects, patient_name, files, oks, n + 1)
    ELSE LET up == UploadPatientImage(objects, patient_name, files[n].name, oks[n])
         IN  IF up.raised THEN [objects |-> objects, count |-> 0, raised |-> TRUE]
             ELSE LET rest == UploadLoop(up.objects, patient_name, files, oks, n + 1)
                  IN  [rest EXCEPT !.count = @ + 1]

\* the three required settings vary; the others keep their defaults
AppConfigs ==
    { c \in Configs : /\ c.FIRESTORE_COLLECTION = "v"
                      /\ c.GEMINI_MODEL = GEMINI_MODEL
                      /\ c.MAX_IMAGE_SIZE_MB = 10 }

AppObjects == { <<"p", SEP, "x", ".png">> }

AppUploadNames == { <<"q">>, <<WS>> }

AppFile == [name : { <<"y", ".png">> }, data : BOOLEAN]

AppFileLists == UNION { [1..n -> AppFile] : n \in 0..MaxFiles }

InitApp ==
    /\ bucket = AppObjects
    /\ ScanRestIdle
    /\ ExtractIdle
    /\ AnalysisIdle
    /\ MatchIdle
    /\ StoreIdle
    /\ BucketIdle
    /\ GeminiIdle
    /\ MainIdle
    /\ cfg \in AppConfigs
    /\ cf_out = NoCheck

\* MainCheckConfig that reports the missing settings and goes on
MainCheckConfigGoesOn ==
    /\ mn_pc = "start"
    /\ cf_out' = [done |-> TRUE, valid |-> Validate(cfg),
                  missing |-> GetMissingConfigs(cfg)]
    /\ mn_pc' = "init"
    /\ mn_steps' = IF Validate(cfg) THEN mn_steps ELSE Append(mn_steps, "config_error")
    /\ UNCHANGED <<cfg, mn_runs, clients, patients, session, report, scanVars, exVars,
                   anVars, mqVars, stVars, bkVars, gmVars>>

\* the configuration check of main: a failed check reports the missing
\* settings and returns
MainCheckConfig ==
    /\ mn_pc = "start"
    /\ cf_out' = [done |-> TRUE, valid |-> Validate(cfg),
                  missing |-> GetMissingConfigs(cfg)]
    /\ mn_pc' = IF Validate(cfg) THEN "init" ELSE "returned"
    /\ mn_steps' = IF Validate(cfg) THEN mn_steps ELSE Append(mn_steps, "config_error")
    /\ UNCHANGED <<cfg, mn_runs, clients, patients, session, report, scanVars, exVars,
                   anVars, mqVars, stVars, bkVars, gmVars>>

\* if not initialize_clients(): return
MainInitClients ==
    /\ mn_pc = "init"
    /\ \E gcs_ok \in BOOLEAN, firestore_ok \in BOOLEAN, working \in {ModelNames, {}} :
       \E out \in {InitializeClients(clients, gcs_ok, working, firestore_ok,
                                     cfg.GEMINI_MODEL)} :
          /\ clients' = out.clients
          /\ mn_pc' = IF out.ok THEN "list" ELSE "returned"
    /\ mn_steps' = Append(mn_steps, "init_clients")
    /\ UNCHANGED <<cfVars, mn_runs, patients, session, report, scanVars, exVars,
                   anVars, mqVars, stVars, bkVars, gmVars>>

\* patients = gcs_client.list_patients()
MainListPatients ==
    /\ mn_pc = "list"
    /\ \E ok \in BOOLEAN :
          patients' = ListPatients(bucket, {}, ok)
    /\ mn_pc' = "form"
    /\ mn_steps' = Append(mn_steps, "list_patients")
    /\ UNCHANGED <<cfVars, mn_runs, clients, session, report, scanVars, exVars,
                   anVars, mqVars, stVars, bkVars, gmVars>>

\* the run in which the button Upload & Analyze was pressed
UploadAndAnalyze(new_patient_name, files) ==
    /\ mn_pc = "form"
    /\ \E patient_name \in {PyStrip(new_patient_name)} :
          IF patient_name = <<>> \/ files = <<>>
          THEN /\ \E page \in {DisplayFullReport(session)} :
                     /\ session' = page.session
                     /\ report' = page.report
               /\ mn_steps' = Append(mn_steps, "input_error")
               /\ UNCHANGED <<bucket, store, clock>>
          ELSE \E oks \in [1..Len(files) -> BOOLEAN], list_ok \in BOOLEAN,
                  read_ok \in BOOLEAN :
               \E up \in {UploadLoop(bucket, patient_name, files, oks, 1)} :
               \E listing \in {ListPatientImages(up.objects, patient_name, list_ok)} :
               \E outcomes \in [1..Len(listing) -> ImageOutcomes] :
                  /\ bucket' = up.objects
                  /\ IF up.raised \/ up.count = 0
                     THEN /\ \E page \in {DisplayFullReport(session)} :
                                /\ session' = page.session
                                /\ report' = page.report
                          /\ mn_steps' = Append(mn_steps, "upload")
                          /\ UNCHANGED <<store, clock>>
                     ELSE \E scan \in {ScanPatientFolder(store, clock, listing,
                                                         patient_name, outcomes)} :
                          \E order \in (IF read_ok THEN Orders(DOMAIN scan.docs)
                                        ELSE {<<>>}) :
                          \E summaries_new \in {LoadSummaries(scan.docs, order,
                                                              patient_name, read_ok)} :
                          \E page \in {DisplayFullReport(
                                           AssignViews([session EXCEPT
                                               !.current_patient = patient_name],
                                               summaries_new))} :
                             /\ store' = scan.docs
                             /\ clock' = scan.clock
                             /\ session' = page.session
                             /\ report' = page.report
                             /\ mn_steps' = mn_steps \o <<"upload", "scan">>
    /\ mn_pc' = "returned"
    /\ UNCHANGED <<cfVars, mn_runs, clients, patients, pc, scan_patient, images, idx,
                   results, log, saves, runs, prev, listed_ok, shown, exVars, anVars,
                   mqVars, stVars, bkVars, gmVars>>

\* the run in which the button Scan and Analyze was pressed
ScanAndAnalyze(selected_patient) ==
    /\ mn_pc = "form"
    /\ selected_patient \in Elems(patients)
    /\ \E list_ok \in BOOLEAN, read_ok \in BOOLEAN :
       \E listing \in {ListPatientImages(bucket, selected_patient, list_ok)} :
       \E outcomes \in [1..Len(listing) -> ImageOutcomes] :
       \E scan \in {ScanPatientFolder(store, clock, listing, selected_patient,
                                      outcomes)} :
       \E order \in (IF read_ok THEN Orders(DOMAIN scan.docs) ELSE {<<>>}) :
       \E summaries \in {LoadSummaries(scan.docs, order, selected_patient, read_ok)} :
       \E page \in {DisplayFullReport(
                        AssignViews([session EXCEPT !.current_patient = selected_patient],
                                    summaries))} :
          /\ store' = scan.docs
          /\ clock' = scan.clock
          /\ session' = page.session
          /\ report' = page.report
    /\ mn_steps' = Append(mn_steps, "scan")
    /\ mn_pc' = "returned"
    /\ UNCHANGED <<cfVars, mn_runs, clients, patients, bucket, pc, scan_patient, images,
                   idx, results, log, saves, runs, prev, listed_ok, shown, exVars, anVars,
                   mqVars, stVars, bkVars, gmVars>>

\* a run in which no button was pressed: the page is drawn again
NoButton ==
    /\ mn_pc = "form"
    /\ \E page \in {DisplayFullReport(session)} :
          /\ session' = page.session
          /\ report' = page.report
    /\ mn_pc' = "returned"
    /\ UNCHANGED <<cfVars, mn_steps, mn_runs, clients, patients, scanVars, exVars,
                   anVars, mqVars, stVars, bkVars, gmVars>>

\* the next interaction runs main again
MainRerun ==
    /\ mn_pc = "returned"
    /\ mn_runs + 1 < MaxRuns
    /\ mn_runs' = mn_runs + 1
    /\ mn_pc' = "start"
    /\ mn_steps' = <<>>
    /\ patients' = <<>>
    /\ report' = NoReport
    /\ cf_out' = NoCheck
    /\ UNCHANGED <<cfg, clients, session, scanVars, exVars, anVars, mqVars, stVars,
                   bkVars, gmVars>>

NextApp ==
    \/ MainCheckConfig
    \/ MainInitClients
    \/ MainListPatients
    \/ \E new_patient_name \in AppUploadNames, files \in AppFileLists :
          UploadAndAnalyze(new_patient_name, files)
    \/ \E selected_patient \in Elems(patients) : ScanAndAnalyze(selected_patient)
    \/ NoButton
    \/ MainRerun

SpecApp == InitApp /\ [][NextApp]_vars

\* ------------------------------------------------------------------------
\* The bucket on its own: uploads and the two listings, over a bucket that
\* holds any of the seed keys at the start
\* ------------------------------------------------------------------------

\* the uploads of the bucket specification
MaxUploads == 1

SeedKeys ==
    { <<"p", SEP, "x", ".png">>, <<"p", SEP, "y", ".PNG">>, <<"p", SEP, "x", ".txt">>,
      <<"p", "q", SEP, "x", ".png">>, <<"p", SEP, "a", SEP, "x", ".jpg">>,
      <<"x", ".png">>, <<SEP, "x", ".png">> }

UploadNames == { <<"p">>, <<WS, "q", WS>>, <<WS>>, <<>> }

UploadFiles == { <<"y", ".png">>, <<"y", ".txt">> }

ListNames == { <<"p">>, <<"q">>, <<"p", "q">> }

\* what blobs.prefixes may hold when list_patients reads it
PrefixListings == SUBSET { <<"a", SEP>>, <<"p", SEP>>, <<SEP>> }

InitBucket ==
    /\ bucket \in SUBSET SeedKeys
    /\ ScanRestIdle
    /\ ExtractIdle
    /\ AnalysisIdle
    /\ MatchIdle
    /\ StoreIdle
    /\ AppIdle

UploadImage(patient_name, file_name) ==
    /\ bk_call = NoBucketCall
    /\ bk_uploads < MaxUploads
    /\ \E ok \in BOOLEAN :
       \E out \in {UploadPatientImage(bucket, patient_name, file_name, ok)} :
          /\ bucket' = out.objects
          /\ bk_uploads' = IF out.raised THEN bk_uploads ELSE bk_uploads + 1
          /\ bk_call' = [op |-> "upload", patient |-> patient_name,
                         file |-> file_name, prefixes |-> {}, ok |-> ok,
                         raised |-> out.raised, result |-> out.result]
    /\ UNCHANGED <<scanRest, exVars, anVars, mqVars, stVars, cfVars, gmVars,
                   mnVars>>

ListImages(patient_name) ==
    /\ bk_call = NoBucketCall
    /\ \E ok \in BOOLEAN :
          bk_call' = [op |-> "images", patient |-> patient_name, file |-> <<>>,
                      prefixes |-> {}, ok |-> ok, raised |-> FALSE,
                      result |-> ListPatientImages(bucket, patient_name, ok)]
    /\ UNCHANGED <<scanVars, exVars, anVars, mqVars, stVars, bk_uploads, cfVars,
                   gmVars, mnVars>>

ListFolders ==
    /\ bk_call = NoBucketCall
    /\ \E ok \in BOOLEAN :
       \E prefixes \in (IF ok THEN PrefixListings ELSE {{}}) :
          bk_call' = [op |-> "patients", patient |-> <<>>, file |-> <<>>,
                      prefixes |-> prefixes, ok |-> ok, raised |-> FALSE,
                      result |-> ListPatients(bucket, prefixes, ok)]
    /\ UNCHANGED <<scanVars, exVars, anVars, mqVars, stVars, bk_uploads, cfVars,
                   gmVars, mnVars>>

\* the caller has what the call gave; the next call may start
BucketReturned ==
    /\ bk_call # NoBucketCall
    /\ bk_call' = NoBucketCall
    /\ UNCHANGED <<scanVars, exVars, anVars, mqVars, stVars, bk_uploads, cfVars,
                   gmVars, mnVars>>

NextBucket ==
    \/ \E patient_name \in UploadNames, file_name \in UploadFiles :
          UploadImage(patient_name, file_name)
    \/ \E patient_name \in ListNames : ListImages(patient_name)
    \/ ListFolders
    \/ BucketReturned

SpecBucket == InitBucket /\ [][NextBucket]_vars

\* ------------------------------------------------------------------------
\* Properties of scan_patient_folder (specification Spec)
\* ------------------------------------------------------------------------

\* an image failed at some stage
StageFailed(e) ==
    e.dl = "none" \/ e.ext \in {"raised", "error"} \/ e.sv = "raise"

\* the images of the log entries whose failure flag is flag, in log order
RECURSIVE ImagesWhere(_, _)
ImagesWhere(lg, flag) ==
    IF lg = <<>> THEN <<>>
    ELSE (IF StageFailed(Head(lg)) = flag THEN <<Head(lg).image>> ELSE <<>>)
         \o ImagesWhere(Tail(lg), flag)

FailedCount(lg) == Cardinality({ i \in 1..Len(lg) : StageFailed(lg[i]) })

\* C1: when the scan returns for a listing of N images of which K failed at
\* some stage (download, extraction, persistence), total_images = N,
\* processed + failed = N and processed = N - K.
C1_ScanCounts ==
    pc = "done" =>
        /\ Len(log) = Len(images)
        /\ results.total_images = Len(images)
        /\ results.processed + results.failed = Len(images)
        /\ results.processed = Len(images) - FailedCount(log)

\* a scan of two images returned, one failed at persistence, one succeeded
C1_Witness ==
    /\ pc = "done"
    /\ Len(images) = 2
    /\ log[1].sv = "raise"
    /\ log[2].sv = "ok"
    /\ results.processed = 1

\* C2: the images are attempted once each in listing order; each attempted
\* image is in exactly one of summaries and errors, by its own stage results
\* alone, both lists are in listing order, and their lengths are the counts.
C2_FailureIsolation ==
    /\ Len(log) <= Len(images)
    /\ \A i \in 1..Len(log) : log[i].image = images[i]
    /\ pc = "done" => Len(log) = Len(images)
    /\ [i \in 1..Len(results.summaries) |-> results.summaries[i].image_path]
          = ImagesWhere(log, FALSE)
    /\ [i \in 1..Len(results.errors) |-> results.errors[i].image]
          = ImagesWhere(log, TRUE)
    /\ Len(results.summaries) = results.processed
    /\ Len(results.errors) = results.failed

\* the first image failed to download and the second was processed, and
\* another scan had both images processed
C2_Witness ==
    /\ pc = "done"
    /\ Len(images) = 2
    /\ log[1].dl = "none"
    /\ log[2].sv = "ok"
    /\ Len(results.summaries) = 1
    /\ Len(results.errors) = 1

\* C3: an iteration calls save_summary only when the download gave an image
\* and the extraction gave a record without error; an iteration whose
\* extraction raised or gave an error record leaves the store as it was and
\* counts the image as failed, not processed.
C3_OnlySuccessfulExtractionsStored ==
    [][ Len(log') = Len(log) + 1 =>
          LET e == log'[Len(log')]
          IN  /\ (e.sv # "skipped" \/ store' # store \/ saves' # saves)
                    => (e.dl = "image" /\ e.ext = "ok")
              /\ e.ext \in {"raised", "error"}
                    => /\ store' = store
                       /\ saves' = saves
                       /\ results'.failed = results.failed + 1
                       /\ results'.processed = results.processed
                       /\ results'.errors[Len(results'.errors)].image = e.image
      ]_vars

\* a scan in which one extraction gave an error record and another image
\* was persisted
C3_Witness ==
    /\ pc = "done"
    /\ \E i \in 1..Len(log) : log[i].ext = "error"
    /\ \E i \in 1..Len(log) : log[i].sv = "ok"
    /\ store # <<>>

\* the documents stored for a (patient, filename) pair
DocsOf(patient_name, filename) ==
    { d \in DOMAIN store :
        store[d].patient_name = patient_name /\ store[d].image_name = filename }

SummaryImages(summaries) == [i \in 1..Len(summaries) |-> summaries[i].image_path]

SummaryIds(summaries) == [i \in 1..Len(summaries) |-> summaries[i].doc_id]

\* the scan that just returned repeats the previous one: same patient, same
\* listing, the same images extracted and persisted
Rerun ==
    /\ pc = "done"
    /\ prev.valid
    /\ prev.patient = scan_patient
    /\ prev.images = images
    /\ SummaryImages(prev.summaries) = SummaryImages(results.summaries)

\* C4: two saves of the same (patient, filename) return the same document
\* id and leave exactly one document for the pair; a scan that repeats the
\* previous one returns the same record ids and leaves the same number of
\* documents.
C4_SaveIdempotent ==
    /\ \A i, j \in 1..Len(saves) :
          (saves[i].patient = saves[j].patient /\ saves[i].filename = saves[j].filename)
             => saves[i].doc_id = saves[j].doc_id
    /\ \A i \in 1..Len(saves) :
          Cardinality(DocsOf(saves[i].patient, saves[i].filename)) <= 1
    /\ saves # <<>> =>
          Cardinality(DocsOf(saves[Len(saves)].patient, saves[Len(saves)].filename)) = 1
    /\ Rerun =>
          /\ SummaryIds(results.summaries) = SummaryIds(prev.summaries)
          /\ Cardinality(DOMAIN store) = prev.ndocs

\* a scan that persisted two images was repeated
C4_Witness ==
    /\ Rerun
    /\ Len(results.summaries) = 2
    /\ \E i, j \in 1..Len(saves) :
          i < j /\ saves[i].patient = saves[j].patient /\ saves[i].filename = saves[j].filename

\* ------------------------------------------------------------------------
\* Properties of generate_clinical_summary (specification SpecExtract, and
\* Spec for what the scan does with its record)
\* ------------------------------------------------------------------------

\* the text handed to json.loads for a reply
ParsedText(call) == ExtractJson(PyStrip(call.text))

\* the reply is there and not empty
HasReply(call) == ~call.raises /\ call.text # <<>>

\* the reply is there and empty
IsEmptyReply(call) == ~call.raises /\ call.text = <<>>

\* the extraction failed: the call raised, the reply was empty, or reading
\* the fields raised because the parsed value is not an object
ExtractionFailed(call) ==
    \/ call.raises
    \/ call.text = <<>>
    \/ (JsonLoads(ParsedText(call)).ok /\ JsonLoads(ParsedText(call)).pytype # "dict")

ListsEmpty(rec) ==
    /\ rec.abnormalities = EmptyList
    /\ rec.prescriptions = EmptyList
    /\ rec.exercises = EmptyList
    /\ rec.dietary = EmptyList
    /\ rec.recommendations = EmptyList

C6_NonEmptyReplyProcessed ==
    \A i \in 1..Len(log) :
        log[i].reply = "text" =>
            /\ log[i].ext = "ok"
            /\ log[i].sv = "ok" =>
                  \E k \in 1..Len(results.summaries) :
                      results.summaries[k].image_path = log[i].image

\* C7: when the reply text fails JSON parsing, the record has no error key,
\* its summary is the reply as the model sent it (leading and trailing
\* whitespace aside), and measurements and the five lists are empty.
C7_FallbackKeepsRawReply ==
    \A f \in DOMAIN ex_out :
        (HasReply(ReplyCall(ex_call, f)) /\ ~JsonLoads(ParsedText(ReplyCall(ex_call, f))).ok) =>
            /\ ~ex_out[f].rec.has_error
            /\ ex_out[f].rec.summary = PyStr(PyStrip(ReplyCall(ex_call, f).text))
            /\ ex_out[f].rec.measurements = EmptyDict
            /\ ListsEmpty(ex_out[f].rec)

\* the field of a record by name
FieldOf(rec, name) ==
    CASE name = "summary" -> rec.summary
      [] name = "measurements" -> rec.measurements
      [] name = "abnormalities" -> rec.abnormalities
      [] name = "prescriptions" -> rec.prescriptions
      [] name = "exercises" -> rec.exercises
      [] name = "dietary" -> rec.dietary
      [] name = "recommendations" -> rec.recommendations

\* the empty default of a field
EmptyDefault(name) ==
    IF name = "summary" THEN EmptyStr
    ELSE IF name = "measurements" THEN EmptyDict ELSE EmptyList

\* the body of the call is an object with exactly the fields of some set
IsPlainObject(call) == \E S \in ObjectKeySets : call.text = ObjectText(S)

KeysOf(call) == CHOOSE S \in ObjectKeySets : call.text = ObjectText(S)

\* the reply in form f parses as a JSON object
ParsesAsObject(call) ==
    /\ HasReply(call)
    /\ JsonLoads(ParsedText(call)).ok
    /\ JsonLoads(ParsedText(call)).pytype = "dict"

\* C8 as claimed: when the reply parses as a JSON object, every absent field
\* takes its empty default (the empty string for summary) and every present
\* field is copied unchanged.
C8_AbsentFieldsEmpty ==
    \A f \in DOMAIN ex_out :
        (IsPlainObject(ex_call) /\ ParsesAsObject(ReplyCall(ex_call, f))) =>
            \A n \in FieldNames :
                FieldOf(ex_out[f].rec, n) =
                    IF n \in KeysOf(ex_call) THEN FieldText(n) ELSE EmptyDefault(n)

\* C8 as amended: when the reply parses as a JSON object, an absent summary
\* takes the parsed text (the reply after trimming and fence unwrapping),
\* absent measurements the empty mapping, an absent list field the empty
\* list, and every present field is copied unchanged.
C8_AbsentFieldsDefault ==
    \A f \in DOMAIN ex_out :
        (IsPlainObject(ex_call) /\ ParsesAsObject(ReplyCall(ex_call, f))) =>
            /\ ~ex_out[f].rec.has_error
            /\ \A n \in FieldNames :
                FieldOf(ex_out[f].rec, n) =
                    IF n \in KeysOf(ex_call) THEN FieldText(n)
                    ELSE IF n = "summary" THEN PyStr(ex_call.text)
                    ELSE EmptyDefault(n)

\* an object with dietary alone was extracted from a tagged block and from
\* the bare text
C8_Witness ==
    /\ ex_call.text = ObjectText({"dietary"})
    /\ {"tagged", "bare"} \subseteq DOMAIN ex_out
    /\ ParsesAsObject(ReplyCall(ex_call, "tagged"))
    /\ ex_out["tagged"].rec.dietary = FieldText("dietary")

\* the case of the finish signal of an empty reply
FinishClass(call) ==
    IF ~call.candidates \/ call.finish_reason = 0 THEN "none"
    ELSE IF call.finish_reason = SAFETY THEN "safety"
    ELSE IF call.finish_reason = RECITATION THEN "recitation"
    ELSE "other"

\* C9: an empty reply gives an error record with a non-empty error string
\* and empty measurements and lists, and the error strings of two empty
\* replies differ when their finish signals are of different cases (safety,
\* recitation, another reason, no reason).
C9_EmptyReplyClassified ==
    ("bare" \in DOMAIN ex_out /\ IsEmptyReply(ex_call)) =>
        /\ ~ex_out["bare"].propagated
        /\ ex_out["bare"].rec.has_error
        /\ ex_out["bare"].rec.error # <<>>
        /\ ex_out["bare"].rec.error # EmptyStr
        /\ ex_out["bare"].rec.measurements = EmptyDict
        /\ ListsEmpty(ex_out["bare"].rec)
        /\ \A c \in EmptyCalls :
              FinishClass(c) # FinishClass(ex_call) =>
                  GenerateClinicalSummary(c, GEMINI_MODEL).rec.error # ex_out["bare"].rec.error

\* an empty reply with the recitation signal was extracted
C9_Witness ==
    /\ "bare" \in DOMAIN ex_out
    /\ IsEmptyReply(ex_call)
    /\ ex_call.candidates
    /\ ex_call.finish_reason = RECITATION
    /\ ex_out["bare"].rec.has_error

SevenFields(rec) ==
    <<rec.summary, rec.measurements, rec.abnormalities, rec.prescriptions,
      rec.exercises, rec.dietary, rec.recommendations>>

\* C10: for every JSON object text, the reply that wraps it in a block
\* tagged json, the reply that wraps it in an untagged block and the reply
\* that is the text alone give the same seven fields; with a tagged and an
\* untagged block in one reply, the tagged block is the one parsed.
C10_FenceTransparent ==
    ex_call.text \in ObjectTexts =>
        /\ \A f, g \in DOMAIN ex_out \cap {"bare", "tagged", "untagged"} :
              SevenFields(ex_out[f].rec) = SevenFields(ex_out[g].rec)
        /\ \A f \in DOMAIN ex_out \cap {"untagged_first", "tagged_first"} :
              "tagged" \in DOMAIN ex_out =>
                  SevenFields(ex_out[f].rec) = SevenFields(ex_out["tagged"].rec)

\* ------------------------------------------------------------------------
\* Properties of scan_patient_folder at the edges: metadata, empty listing,
\* unreachable bucket (specification Spec)
\* ------------------------------------------------------------------------

\* C11: an iteration whose metadata fetch failed still runs the extraction
\* and, when the extraction gave a record without error, the save; when
\* both succeed the image is counted as processed, not failed, and the
\* document written for it has no image_metadata.
C11_MetadataFailureTolerated ==
    [][ Len(log') = Len(log) + 1 =>
          LET e == log'[Len(log')]
              doc_id == DocId(scan_patient, LastSegment(e.image))
          IN  (e.dl = "image" /\ e.md = "fail") =>
                /\ e.ext # "skipped"
                /\ e.ext = "ok" => e.sv # "skipped"
                /\ (e.ext = "ok" /\ e.sv = "ok") =>
                      /\ results'.processed = results.processed + 1
                      /\ results'.failed = results.failed
                      /\ results'.summaries[Len(results'.summaries)].image_path = e.image
                      /\ doc_id \in DOMAIN store'
                      /\ store'[doc_id].image_path = e.image
                      /\ ~store'[doc_id].has_metadata
      ]_vars

\* an image whose metadata fetch failed was persisted and counted as
\* processed
C11_Witness ==
    \E i \in 1..Len(log) :
        /\ log[i].md = "fail"
        /\ log[i].sv = "ok"
        /\ results.processed >= 1
        /\ DocId(scan_patient, LastSegment(log[i].image)) \in DOMAIN store
        /\ ~store[DocId(scan_patient, LastSegment(log[i].image))].has_metadata

\* C12: a scan whose listing is empty returns at once with total_images,
\* processed and failed 0 and empty summaries and errors, having attempted
\* no image and written nothing to the store.
C12_EmptyListingReturnsZeros ==
    [][ (pc = "idle" /\ pc' # "idle" /\ images' = <<>>) =>
          /\ pc' = "done"
          /\ results'.total_images = 0
          /\ results'.processed = 0
          /\ results'.failed = 0
          /\ results'.summaries = <<>>
          /\ results'.errors = <<>>
          /\ log' = <<>>
          /\ store' = store
          /\ saves' = saves
      ]_vars

\* the scan of a patient without objects returned, the bucket having been
\* reached
C12_Witness ==
    /\ pc = "done"
    /\ listed_ok
    /\ images = <<>>
    /\ scan_patient = <<"b">>
    /\ results.total_images = 0

\* C13: when the bucket could not be reached for the listing, the scan that
\* returns has shown an error message.
C13_ConnectivityFailureSurfaced ==
    (pc = "done" /\ ~listed_ok) => shown # <<>>

\* ------------------------------------------------------------------------
\* Properties of generate_patient_analysis (specification SpecAnalysis)
\* ------------------------------------------------------------------------

\* the field of every summary in turn, end to end
RECURSIVE Concatenation(_, _)
Concatenation(summaries, field) ==
    IF summaries = <<>> THEN <<>>
    ELSE (IF field \in DOMAIN Head(summaries) THEN Head(summaries)[field] ELSE <<>>)
         \o Concatenation(Tail(summaries), field)

\* the position of the first occurrence of x in xs
FirstAt(xs, x) == CHOOSE i \in 1..Len(xs) : xs[i] = x /\ \A j \in 1..(i - 1) : xs[j] # x

\* C14: for each of the five list fields, the analysis of a non-empty list
\* of summaries holds every string of that field of some summary exactly
\* once and no other string, ordered by first occurrence in the
\* concatenation of the field over the summaries in input order.
C14_ListsUnionFirstSeen ==
    (an_out.done /\ an_in # <<>>) =>
        \A f \in ListFields :
            LET out == an_out.analysis[f]
                all == Concatenation(an_in, f)
            IN  /\ \A i, j \in 1..Len(out) : out[i] = out[j] => i = j
                /\ Elems(out) = Elems(all)
                /\ \A i, j \in 1..Len(out) :
                      i < j => FirstAt(all, out[i]) < FirstAt(all, out[j])

\* abnormalities A, B and then B, C were analysed to A, B, C
C14_Witness ==
    /\ an_out.done
    /\ Len(an_in) = 2
    /\ an_in[1] = [abnormalities |-> <<"A", "B">>]
    /\ an_in[2] = [abnormalities |-> <<"B", "C">>]
    /\ an_out.analysis.abnormalities = <<"A", "B", "C">>

\* the summaries that have measurement name
Holders(summaries, name) ==
    { i \in 1..Len(summaries) :
        /\ "measurements" \in DOMAIN summaries[i]
        /\ name \in DOMAIN summaries[i]["measurements"] }

\* C15: a measurement name is in the analysis exactly when some summary has
\* it, and its value list has one entry per summary that has it, in summary
\* order, equal values included.
C15_MeasurementsKeepMultiplicity ==
    (an_out.done /\ an_in # <<>>) =>
        /\ DOMAIN an_out.analysis.measurements =
              { name \in MeasurementNames : Holders(an_in, name) # {} }
        /\ \A name \in DOMAIN an_out.analysis.measurements :
              LET values == an_out.analysis.measurements[name]
                  holders == Holders(an_in, name)
              IN  /\ Len(values) = Cardinality(holders)
                  /\ \A i \in holders :
                        values[Cardinality({ j \in holders : j <= i })]
                            = an_in[i]["measurements"][name]

\* two summaries that both report BP 120/80 gave a BP list of length 2
C15_Witness ==
    /\ an_out.done
    /\ Len(an_in) = 2
    /\ an_in[1] = [measurements |-> [key \in {"BP"} |-> "120/80"]]
    /\ an_in[2] = an_in[1]
    /\ an_out.analysis.measurements["BP"] = <<"120/80", "120/80">>

\* C16: the analysis of no summaries is the empty dict, and the analysis of
\* a non-empty list has total_reports equal to the number of summaries.
C16_EmptyAndCount ==
    an_out.done =>
        IF an_in = <<>>
        THEN DOMAIN an_out.analysis = {}
        ELSE /\ "total_reports" \in DOMAIN an_out.analysis
             /\ an_out.analysis.total_reports = Len(an_in)

\* no summaries were analysed to the empty dict
C16_Witness ==
    /\ an_out.done
    /\ an_in = <<>>
    /\ DOMAIN an_out.analysis = {}

\* ------------------------------------------------------------------------
\* Properties of _matches_measurement_query (specification SpecMatch)
\* ------------------------------------------------------------------------

\* measurement key holds name, whatever the case
NameIn(name, meas_key) == PyContains(StrLower(meas_key), StrLower(name))

\* C17: a query name = number matches only when some measurement has a
\* leading number within 0.1 of the queried number.
C17_EqualityWithinTolerance ==
    (mq_out.done /\ mq_query.op = <<EQ>> /\ mq_out.matched) =>
        \E meas_key \in DOMAIN mq_meas :
            /\ LeadingNumber(mq_meas[meas_key]).found
            /\ WithinTolerance(LeadingNumber(mq_meas[meas_key]).num,
                               IntValue(mq_query.num))

\* C18: a query name > v (name < v) matches exactly when some measurement
\* whose name holds the query's name, whatever the case, has a leading
\* number greater than (less than) v.
C18_ComparatorMatches ==
    (mq_out.done /\ mq_query.op \in {<<LT>>, <<GT>>}) =>
        (mq_out.matched <=>
            \E meas_key \in DOMAIN mq_meas :
                /\ NameIn(mq_query.name, meas_key)
                /\ LeadingNumber(mq_meas[meas_key]).found
                /\ IF mq_query.op = <<GT>>
                   THEN LeadingNumber(mq_meas[meas_key]).num > IntValue(mq_query.num) * Scale
                   ELSE LeadingNumber(mq_meas[meas_key]).num < IntValue(mq_query.num) * Scale)

\* ------------------------------------------------------------------------
\* Properties of the reads of the record store (specification SpecStore)
\* ------------------------------------------------------------------------

\* the positions of the stream at which a matching document of the
\* patient came
MatchPositions(order, query_text, patient_name) ==
    { i \in 1..Len(order) :
        /\ store[order[i]].patient_name = patient_name
        /\ DocMatches(store[order[i]], query_text) }

\* C19: a search that read the store returns, for every patient that has a
\* matching document, that patient's first matching document in the order
\* of the stream and no other document of the patient, and nothing for a
\* patient without a matching document.
C19_OneRecordPerPatient ==
    (st_call.op = "search" /\ st_call.ok) =>
        LET result == st_call.result
            order == st_call.order
        IN  /\ \A i, j \in 1..Len(result) :
                  store[result[i]].patient_name = store[result[j]].patient_name => i = j
            /\ \A i \in 1..Len(result) :
                  LET hits == MatchPositions(order, st_call.query,
                                             store[result[i]].patient_name)
                  IN  hits # {} /\ result[i] = order[Min(hits)]
            /\ \A d \in DOMAIN store :
                  MatchPositions(order, st_call.query, store[d].patient_name) # {}
                     => \E i \in 1..Len(result) :
                           store[result[i]].patient_name = store[d].patient_name

\* a patient with two matching documents and a patient with none were
\* searched, and the first match alone came back
C19_Witness ==
    /\ st_call.op = "search"
    /\ st_call.ok
    /\ st_call.query = <<"fracture">>
    /\ Cardinality(MatchPositions(st_call.order, st_call.query, <<"p">>)) = 2
    /\ \E d \in DOMAIN store : store[d].patient_name = <<"P">>
    /\ MatchPositions(st_call.order, st_call.query, <<"P">>) = {}
    /\ Len(st_call.result) = 1
    /\ st_call.result[1] = st_call.order[Min(MatchPositions(st_call.order, st_call.query, <<"p">>))]

\* C20: a read of a patient's summaries that reached the store returns the
\* documents whose patient_name is the patient's, letter case included,
\* each once and no other, the later created first.
C20_PatientSummariesNewestFirst ==
    (st_call.op = "get" /\ st_call.ok) =>
        LET result == st_call.result
        IN  /\ Elems(result) = { d \in DOMAIN store : store[d].patient_name = st_call.patient }
            /\ \A i, j \in 1..Len(result) : result[i] = result[j] => i = j
            /\ \A i, j \in 1..Len(result) :
                  i < j => store[result[i]].created_at > store[result[j]].created_at

\* the store holds two documents of p and one of P, and the read for p
\* gave p's two
C20_Witness ==
    /\ st_call.op = "get"
    /\ st_call.ok
    /\ st_call.patient = <<"p">>
    /\ Len(st_call.result) = 2
    /\ \E d \in DOMAIN store : store[d].patient_name = <<"P">>
    /\ store[st_call.result[1]].created_at > store[st_call.result[2]].created_at

\* ------------------------------------------------------------------------
\* Properties of the bucket client (specification SpecBucket)
\* ------------------------------------------------------------------------

\* the key is in the folder of the patient: it reads patient_name, then "/"
InFolder(key, patient_name) ==
    /\ Len(key) > Len(patient_name)
    /\ \A i \in 1..Len(patient_name) : key[i] = patient_name[i]
    /\ key[Len(patient_name) + 1] = SEP

\* the last lexeme of the key is a supported extension in any letter case
HasImageExtension(key) ==
    /\ key # <<>>
    /\ \E ext \in SUPPORTED_IMAGE_FORMATS : LowerLexeme(key[Len(key)]) = ext

\* the sequence is in strictly ascending order
Ascending(keys) == \A i \in 1..(Len(keys) - 1) : KeyLess(keys[i], keys[i + 1])

\* C21: a listing of the images of patient p that reached the bucket holds
\* exactly the stored keys that start with p/ and end, in any letter case,
\* with a supported extension, in ascending order; it holds no key of any
\* other patient, one whose name starts with p included.
C21_ListingExactAndSorted ==
    (bk_call.op = "images" /\ bk_call.ok) =>
        /\ Elems(bk_call.result)
             = { key \in bucket : InFolder(key, bk_call.patient)
                                   /\ HasImageExtension(key) }
        /\ Ascending(bk_call.result)
        /\ \A i \in 1..Len(bk_call.result) :
              FirstSegment(bk_call.result[i]) = bk_call.patient

\* patient p is listed while pq has an image and p has two images, one with
\* an extension in capitals and one in a sub-folder, and a file that is no image
C21_Witness ==
    /\ bk_call.op = "images"
    /\ bk_call.ok
    /\ bk_call.patient = <<"p">>
    /\ <<"p", "q", SEP, "x", ".png">> \in bucket
    /\ <<"p", SEP, "x", ".txt">> \in bucket
    /\ <<"p", SEP, "y", ".PNG">> \in Elems(bk_call.result)
    /\ Len(bk_call.result) >= 3

\* C22: an upload whose patient name is empty once trimmed raises and leaves
\* the bucket as it was; an upload that the bucket accepts adds exactly the
\* key <trimmed patient>/<file name>, returns that key, and the key is then
\* in the listing of the trimmed patient when its extension is supported.
C22_UploadKey ==
    [][ (bk_call.op = "none" /\ bk_call'.op = "upload") =>
          LET name == PyStrip(bk_call'.patient)
              key == name \o <<SEP>> \o bk_call'.file
          IN  /\ name = <<>> => (bk_call'.raised /\ bucket' = bucket)
              /\ bk_call'.raised => bucket' = bucket
              /\ (name # <<>> /\ bk_call'.ok) =>
                    /\ ~bk_call'.raised
                    /\ bk_call'.result = key
                    /\ bucket' = bucket \cup {key}
                    /\ HasImageExtension(key) =>
                          key \in Elems(ListPatientImages(bucket', name, TRUE)) ]_vars

\* an image was uploaded for a patient name given with spaces around it, and
\* it is stored under the trimmed name
C22_Witness ==
    /\ bk_call.op = "upload"
    /\ bk_call.patient = <<WS, "q", WS>>
    /\ ~bk_call.raised
    /\ bk_call.result = <<"q", SEP, "y", ".png">>
    /\ bk_call.result \in bucket

\* C25: a listing of the patients that reached the bucket is exactly the set
\* of non-empty first path segments of the stored keys that have at least
\* two segments, in ascending order: a name that only the prefix listing
\* reports is not in it.
C25_PatientsFromKeys ==
    (bk_call.op = "patients" /\ bk_call.ok) =>
        /\ Elems(bk_call.result)
             = { FirstSegment(key) :
                   key \in { o \in bucket : HasFolder(o) /\ o[1] # SEP } }
        /\ Ascending(bk_call.result)
\* ------------------------------------------------------------------------
\* Properties of the configuration (specification SpecConfig)
\* ------------------------------------------------------------------------

\* C23 as stated: the check fails exactly when the list of missing settings
\* is not empty, and the list holds exactly the settings among project id,
\* bucket name, collection name and API key whose value is empty.
C23_FourRequired ==
    cf_out.done =>
        /\ cf_out.valid = (cf_out.missing = <<>>)
        /\ Elems(cf_out.missing)
             = { k \in {"GCP_PROJECT_ID", "GCS_BUCKET_NAME", "FIRESTORE_COLLECTION",
                        "GEMINI_API_KEY"} : cfg[k] = "" }

\* C23 amended: the check fails exactly when the list of missing settings is
\* not empty, and the list holds exactly the settings among project id,
\* bucket name and API key whose value is empty, each once; the collection
\* name, the model name and the size limit are never in it.
C23_ThreeRequired ==
    cf_out.done =>
        /\ cf_out.valid = (cf_out.missing = <<>>)
        /\ Elems(cf_out.missing)
             = { k \in {"GCP_PROJECT_ID", "GCS_BUCKET_NAME", "GEMINI_API_KEY"} :
                   cfg[k] = "" }
        /\ Len(cf_out.missing) = Cardinality(Elems(cf_out.missing))

\* a configuration was checked whose collection name, model name and size
\* limit are empty and whose API key is missing: only the key is listed
C23_Witness ==
    /\ cf_out.done
    /\ cfg.FIRESTORE_COLLECTION = ""
    /\ cfg.GEMINI_MODEL = ""
    /\ cfg.MAX_IMAGE_SIZE_MB = 0
    /\ ~cf_out.valid
    /\ cf_out.missing = <<"GEMINI_API_KEY">>

\* ------------------------------------------------------------------------
\* Properties of the model client (specification SpecGemini)
\* ------------------------------------------------------------------------

\* the name the client starts from: the argument, or the configured model
ConfiguredModel == IF gm_env.model_name # "" THEN gm_env.model_name ELSE cfg.GEMINI_MODEL

\* C26: the configured model is tried first; the fallbacks are tried only
\* after it failed, in the order gemini-1.5-flash, gemini-pro-vision,
\* gemini-1.0-pro-vision, and no model is tried after one initialized; the
\* client's model name, and model_used of every record it produces, is the
\* model that initialized; when all fail, initialization raises, there is no
\* client and no record.
C26_ModelFallback ==
    LET tried == gm_client.tried
    IN  /\ gm_client.state # "none" =>
              /\ tried # <<>>
              /\ tried[1] = ConfiguredModel
              /\ \A i \in 2..Len(tried) : tried[i] = FallbackModels[i - 1]
              /\ \A i \in 1..(Len(tried) - 1) : tried[i] \notin gm_env.working
        /\ gm_client.state = "ready" =>
              /\ tried[Len(tried)] \in gm_env.working
              /\ gm_client.model_name = tried[Len(tried)]
        /\ gm_client.state = "raised" =>
              /\ Len(tried) = 1 + Len(FallbackModels)
              /\ \A i \in 1..Len(tried) : tried[i] \notin gm_env.working
        /\ gm_rec.made =>
              /\ gm_client.state = "ready"
              /\ gm_rec.rec.model_used = tried[Len(tried)]

\* the configured model and the first fallback failed, the second fallback
\* initialized, and the client produced a record
C26_Witness ==
    /\ gm_client.state = "ready"
    /\ gm_client.tried = <<GEMINI_MODEL, "gemini-1.5-flash", "gemini-pro-vision">>
    /\ gm_rec.made
    /\ gm_rec.rec.model_used = "gemini-pro-vision"
\* ------------------------------------------------------------------------
\* Properties of the scan and the store (specification Spec)
\* ------------------------------------------------------------------------

\* the step is an iteration of the loop that recorded a failure
FailingIteration ==
    /\ pc = "scanning"
    /\ idx' = idx + 1
    /\ results'.failed = results.failed + 1

C28_DistinctIdsPerImage ==
    (pc = "done" /\ runs = 0) =>
        /\ \A i, j \in 1..Len(results.summaries) :
              results.summaries[i].image_path # results.summaries[j].image_path
                  => results.summaries[i].doc_id # results.summaries[j].doc_id
        /\ Cardinality(DOMAIN store) = results.processed
\* ------------------------------------------------------------------------
\* Properties of the document ids (specification SpecIds)
\* ------------------------------------------------------------------------

\* what get_patient_summaries(patient_name) returns on the collection docs:
\* the documents of the patient with their ids, newest first
ReturnedSummaries(docs, patient_name) ==
    LET order == CHOOSE o \in Orders(DOMAIN docs) : TRUE
        ids == GetPatientSummaries(docs, order, patient_name, TRUE)
    IN  [i \in 1..Len(ids) |-> [doc_id |-> ids[i], data |-> docs[ids[i]]]]

\* C29: the document id is injective on (patient, file name), the names
\* that hold "_" included: a save never writes the id of a document stored
\* for another patient or another file name, and it leaves what
\* get_patient_summaries returns for every other patient as it was.
C29_IdInjective ==
    [][ clock' = clock + 1 =>
          LET new == CHOOSE d \in DOMAIN store' : store'[d].created_at = clock'
              p1 == store'[new].patient_name
              f1 == store'[new].image_name
          IN  /\ \A d \in DOMAIN store :
                    (store[d].patient_name # p1 \/ store[d].image_name # f1) => d # new
              /\ \A p2 \in IdPatients :
                    p2 # p1 => ReturnedSummaries(store', p2) = ReturnedSummaries(store, p2)
      ]_vars
\* ------------------------------------------------------------------------
\* Properties of main (specification SpecApp)
\* ------------------------------------------------------------------------

RequiredSettings == {"GCP_PROJECT_ID", "GCS_BUCKET_NAME", "GEMINI_API_KEY"}

\* C24: in every run of main in which a required setting is empty, the
\* missing settings are reported and that is the only step of the run: no
\* client is initialized, no patient is listed, no image is uploaded and
\* nothing is scanned or stored.
C24_MissingConfigStopsRun ==
    (\E k \in RequiredSettings : cfg[k] = "") =>
        /\ mn_pc \in {"start", "returned"}
        /\ mn_steps \in {<<>>, <<"config_error">>}
        /\ clients = NoClients
        /\ patients = <<>>
        /\ bucket = AppObjects
        /\ store = <<>>
        /\ mn_pc = "returned" =>
              /\ mn_steps = <<"config_error">>
              /\ cf_out.done
              /\ ~cf_out.valid
              /\ Elems(cf_out.missing) = { k \in RequiredSettings : cfg[k] = "" }

\* the API key is empty, and a second run of main has stopped at the
\* configuration check like the first
C24_Witness ==
    /\ cfg.GEMINI_API_KEY = ""
    /\ cfg.GCP_PROJECT_ID # ""
    /\ mn_runs = 1
    /\ mn_pc = "returned"
    /\ mn_steps = <<"config_error">>
    /\ cf_out.missing = <<"GEMINI_API_KEY">>

\* analysis is what generate_patient_analysis returns for the summaries
IsAnalysisOf(analysis, summaries) ==
    IF summaries = <<>> THEN analysis = <<>>
    ELSE /\ ~GeneratePatientAnalysisRaises(summaries)
         /\ analysis = GeneratePatientAnalysis(summaries)

\* C30: after any sequence of the two handlers the summaries of the session
\* are records of the current patient, the analysis of the session is
\* generate_patient_analysis of these summaries (empty when there are
\* none), and a report that is shown has the name of the current patient,
\* summaries of that patient and the analysis of these summaries.
C30_SessionViewConsistent ==
    /\ \A i \in 1..Len(session.current_summaries) :
          session.current_summaries[i].patient_name = session.current_patient
    /\ IsAnalysisOf(session.current_analysis, session.current_summaries)
    /\ report.shown = "report" =>
          /\ report.patient = session.current_patient
          /\ \A i \in 1..Len(report.summaries) :
                report.summaries[i].patient_name = report.patient
          /\ IsAnalysisOf(report.analysis, report.summaries)
====
